---------------------------- MODULE Spec2Model ----------------------------
(***************************************************************************)
(* A model of the TOC repair core of the toc_fixer package:                *)
(*   NestingFixer  (src/src/toc_fixer/nesting_fixer.py)                    *)
(*   LinkFixer     (src/src/toc_fixer/link_fixer.py)                       *)
(*                                                                         *)
(* Text is modelled as a sequence of one-character strings, so that the    *)
(* regular expressions, the case folding and the percent coding of the     *)
(* source are computed and not assumed.  The characters are ASCII.         *)
(* A navigation item is the record                                         *)
(*   [id, title, href, level, children]                                    *)
(* with children a sequence of such records, as the parsers build it.      *)
(***************************************************************************)
EXTENDS Integers, Sequences, FiniteSets, TLC

VARIABLES
  toc,      \* the 'items' of the TOC structure the caller holds
  prev,     \* the 'items' or the document handed to the last operation
  op,       \* the last operation called
  out,      \* what the last operation returned besides a structure
  fixer,    \* the LinkFixer instance: its content root and its two caches
  fs,       \* the file system the content root lives in
  heap,     \* the objects of the TOC where an operation works on references
  doc,      \* the content document in hand: its text and its file name
  ids,      \* the citation ids and the bibliography ids to be matched
  book      \* the run of BookFixer._process_directory: the walk and the report

vars == <<toc, prev, op, out, fixer, fs, heap, doc, ids, book>>

-----------------------------------------------------------------------------
(* Bounds of the model.                                                    *)

MaxItems == 3

-----------------------------------------------------------------------------
(* Characters and strings.                                                 *)

UpperLetters == <<"A","B","C","D","E","F","G","H","I","J","K","L","M",
                  "N","O","P","Q","R","S","T","U","V","W","X","Y","Z">>
LowerLetters == <<"a","b","c","d","e","f","g","h","i","j","k","l","m",
                  "n","o","p","q","r","s","t","u","v","w","x","y","z">>

Range(s) == { s[i] : i \in DOMAIN s }

Upper == Range(UpperLetters)
Lower == Range(LowerLetters)
Alpha == Upper \cup Lower
Digit == {"0","1","2","3","4","5","6","7","8","9"}

\* The characters \s matches and str.strip() removes (those TLA+ can write).
Whitespace == {" ", "\t", "\n", "\r", "\f"}

IndexIn(seq, c) == CHOOSE i \in DOMAIN seq : seq[i] = c

\* str.lower() on one character.
lower_char(c) == IF c \in Upper THEN LowerLetters[IndexIn(UpperLetters, c)] ELSE c

\* str.lower()
lower(s) == [i \in DOMAIN s |-> lower_char(s[i])]

SubStr(s, a, b) == IF a > b THEN <<>> ELSE SubSeq(s, a, b)

\* str.strip(): the leading and the trailing whitespace removed.
strip(s) ==
  LET keep == { i \in DOMAIN s : s[i] \notin Whitespace }
  IN  IF keep = {} THEN <<>>
      ELSE LET a == CHOOSE i \in keep : \A j \in keep : i <= j
               b == CHOOSE i \in keep : \A j \in keep : i >= j
           IN  SubSeq(s, a, b)

\* str.startswith(p)
startswith(s, p) == Len(p) <= Len(s) /\ SubStr(s, 1, Len(p)) = p

SetMax(S) == CHOOSE x \in S : \A y \in S : y <= x
SetMin(S) == CHOOSE x \in S : \A y \in S : x <= y

-----------------------------------------------------------------------------
(* Regular expressions of the shape the pattern lists use: a sequence of   *)
(* atoms anchored at the start of the text, each atom a character class    *)
(* with a quantifier.  PatEnds is the set of lengths of the prefixes the   *)
(* pattern matches; re.search of an anchored pattern succeeds when the     *)
(* set is not empty.                                                       *)

One(cls)  == [cls |-> cls, min |-> 1, many |-> FALSE]
Opt(cls)  == [cls |-> cls, min |-> 0, many |-> FALSE]
Plus(cls) == [cls |-> cls, min |-> 1, many |-> TRUE]
Star(cls) == [cls |-> cls, min |-> 0, many |-> TRUE]

\* A literal character under re.IGNORECASE.
Lit(c) ==
  One({c} \cup (IF c \in Lower THEN {UpperLetters[IndexIn(LowerLetters, c)]} ELSE {})
          \cup (IF c \in Upper THEN {LowerLetters[IndexIn(UpperLetters, c)]} ELSE {}))

Word(w) == [i \in DOMAIN w |-> Lit(w[i])]

\* The longest run of characters of cls that starts after position p.
RunLen(cls, s, p) ==
  SetMax({ n \in 0..(Len(s) - p) : \A k \in 1..n : s[p + k] \in cls })

AtomEnds(a, s, p) ==
  LET run == RunLen(a.cls, s, p)
      hi  == IF a.many THEN run ELSE (IF run >= 1 THEN 1 ELSE 0)
  IN  { p + n : n \in a.min..hi }

RECURSIVE PatEnds(_, _, _, _)
PatEnds(pat, k, s, P) ==
  IF k > Len(pat) THEN P
  ELSE PatEnds(pat, k + 1, s, UNION { AtomEnds(pat[k], s, p) : p \in P })

\* pattern.search(title) for an anchored pattern
matches(pat, s) == PatEnds(pat, 1, s, {0}) # {}

-----------------------------------------------------------------------------
(* NestingFixer: the pattern lists.                                        *)

CHAPTER_PATTERNS == <<
  Word(<<"c","h","a","p","t","e","r">>) \o <<Plus(Whitespace), Plus(Digit)>>,
  Word(<<"c","h">>) \o <<Opt({"."}), Star(Whitespace), Plus(Digit)>>,
  Word(<<"p","a","r","t">>) \o <<Plus(Whitespace), Plus(Digit)>>,
  Word(<<"b","o","o","k">>) \o <<Plus(Whitespace), Plus(Digit)>>,
  Word(<<"u","n","i","t">>) \o <<Plus(Whitespace), Plus(Digit)>>,
  Word(<<"m","o","d","u","l","e">>) \o <<Plus(Whitespace), Plus(Digit)>>,
  <<Plus(Digit), One({"."}), Plus(Whitespace), One(Alpha)>>,
  <<Plus({"I","V","X","L","C","D","M","i","v","x","l","c","d","m"}),
    One({"."}), Plus(Whitespace)>> >>

SECTION_PATTERNS == <<
  Word(<<"s","e","c","t","i","o","n">>) \o <<Plus(Whitespace), Plus(Digit)>>,
  Word(<<"s","e","c">>) \o <<Opt({"."}), Star(Whitespace), Plus(Digit)>>,
  <<Plus(Digit), One({"."}), Plus(Digit), Plus(Whitespace)>>,
  <<One(Alpha), One({"."}), Plus(Whitespace)>>,
  Word(<<"l","e","s","s","o","n">>) \o <<Plus(Whitespace), Plus(Digit)>> >>

SUBSECTION_PATTERNS == <<
  Word(<<"s","u","b","s","e","c","t","i","o","n">>) \o <<Plus(Whitespace), Plus(Digit)>>,
  <<Plus(Digit), One({"."}), Plus(Digit), One({"."}), Plus(Digit), Plus(Whitespace)>>,
  <<One(Alpha), One({")"}), Plus(Whitespace)>>,
  <<One({"("}), Plus(Digit), One({")"}), Plus(Whitespace)>> >>

TOP_LEVEL_ITEMS == <<
       <<"c","o","v","e","r">>,
       <<"t","i","t","l","e"," ","p","a","g","e">>,
       <<"c","o","p","y","r","i","g","h","t">>,
       <<"d","e","d","i","c","a","t","i","o","n">>,
       <<"a","c","k","n","o","w","l","e","d","g","m","e","n","t","s">>,
       <<"a","c","k","n","o","w","l","e","d","g","e","m","e","n","t","s">>,
       <<"p","r","e","f","a","c","e">>,
       <<"f","o","r","e","w","o","r","d">>,
       <<"i","n","t","r","o","d","u","c","t","i","o","n">>,
       <<"p","r","o","l","o","g","u","e">>,
       <<"c","o","n","t","e","n","t","s">>,
       <<"t","a","b","l","e"," ","o","f"," ","c","o","n","t","e","n","t","s">>,
       <<"e","p","i","l","o","g","u","e">>,
       <<"a","f","t","e","r","w","o","r","d">>,
       <<"a","p","p","e","n","d","i","x">>,
       <<"a","p","p","e","n","d","i","c","e","s">>,
       <<"g","l","o","s","s","a","r","y">>,
       <<"b","i","b","l","i","o","g","r","a","p","h","y">>,
       <<"r","e","f","e","r","e","n","c","e","s">>,
       <<"i","n","d","e","x">>,
       <<"a","b","o","u","t"," ","t","h","e"," ","a","u","t","h","o","r">>,
       <<"c","o","l","o","p","h","o","n">> >>

\* NestingFixer._matches_pattern
matches_pattern(title, patterns) ==
  \E i \in DOMAIN patterns : matches(patterns[i], title)

\* A variant of _is_top_level that compares for equality only.
is_top_level_exact(title) ==
  \E i \in DOMAIN TOP_LEVEL_ITEMS : strip(lower(title)) = TOP_LEVEL_ITEMS[i]

\* NestingFixer._is_top_level
is_top_level(title) ==
  LET title_lower == strip(lower(title))
  IN  \E i \in DOMAIN TOP_LEVEL_ITEMS :
        \/ title_lower = TOP_LEVEL_ITEMS[i]
        \/ startswith(title_lower, TOP_LEVEL_ITEMS[i] \o <<" ">>)

\* The prefixes of s that the number part of the numbering patterns,
\* digits followed by any number of groups of a dot and digits, matches in
\* full: the set of their lengths.
RECURSIVE NumberEnds(_, _)
NumberEnds(s, P) ==
  LET more == UNION { PatEnds(<<One({"."}), Plus(Digit)>>, 1, s, {p}) : p \in P } \ P
  IN  IF more = {} THEN P ELSE NumberEnds(s, P \cup more)

NumberPrefixEnds(s) == NumberEnds(s, AtomEnds(Plus(Digit), s, 0))

CountOf(s, c) == Cardinality({ i \in DOMAIN s : s[i] = c })

\* NestingFixer._infer_level_from_numbering: re.match of the number part
\* followed by one dot or whitespace character.  A number part followed by
\* such a character ends on a whole digit run, so the candidate matches
\* differ in the number of groups only and the greedy match is the longest.
\* The result is the set holding the level, empty for None.
infer_level_from_numbering(title) ==
  LET ends == { e \in NumberPrefixEnds(title) :
                  e < Len(title) /\ title[e + 1] \in ({"."} \cup Whitespace) }
  IN  IF ends = {} THEN {}
      ELSE LET level == CountOf(SubStr(title, 1, SetMax(ends)), ".")
           IN  { IF level < 3 THEN level ELSE 3 }

\* The body of the loop of NestingFixer._detect_levels for one flat item.
detect_level(item) ==
  LET title == strip(item.title)
  IN  IF is_top_level(title) THEN 0
      ELSE IF matches_pattern(title, CHAPTER_PATTERNS) THEN 0
      ELSE IF matches_pattern(title, SECTION_PATTERNS) THEN 1
      ELSE IF matches_pattern(title, SUBSECTION_PATTERNS) THEN 2
      ELSE IF infer_level_from_numbering(title) # {}
           THEN CHOOSE l \in infer_level_from_numbering(title) : TRUE
      ELSE item.level

\* NestingFixer._detect_levels: the (item, detected_level) tuples.
detect_levels(flat_items) ==
  [i \in DOMAIN flat_items |->
     [item |-> flat_items[i], level |-> detect_level(flat_items[i])]]

\* A variant of _flatten_items that lists the children of an item before it.
RECURSIVE flatten_children_first(_, _)
flatten_children_first(items, level) ==
  IF items = <<>> THEN <<>>
  ELSE LET item == Head(items)
       IN  (IF item.children # <<>>
            THEN flatten_children_first(item.children, level + 1) ELSE <<>>)
           \o <<[item EXCEPT !.level = level, !.children = <<>>]>>
           \o flatten_children_first(Tail(items), level)

\* NestingFixer._flatten_items: each item copied with level set to its depth
\* and its children cleared, in document order.
RECURSIVE flatten_items(_, _)
flatten_items(items, level) ==
  IF items = <<>> THEN <<>>
  ELSE LET item      == Head(items)
           flat_item == [item EXCEPT !.level = level, !.children = <<>>]
       IN  <<flat_item>>
           \o (IF item.children # <<>>
               THEN flatten_items(item.children, level + 1) ELSE <<>>)
           \o flatten_items(Tail(items), level)

(* NestingFixer._rebuild_hierarchy.  The stack of the source holds          *)
(* references to children lists; a frame is modelled by the path (child     *)
(* indexes from the root list) of the item that owns the list, the empty    *)
(* path for the root list.                                                  *)
RECURSIVE AppendAt(_, _, _)
AppendAt(items, path, item) ==
  IF path = <<>> THEN Append(items, item)
  ELSE [items EXCEPT ![Head(path)].children = AppendAt(@, Tail(path), item)]

RECURSIVE LenAt(_, _)
LenAt(items, path) ==
  IF path = <<>> THEN Len(items)
  ELSE LenAt(items[Head(path)].children, Tail(path))

\* A variant of the loop below that leaves an item of the same level on the
\* stack.
RECURSIVE pop_stack_above(_, _)
pop_stack_above(stack, level) ==
  IF Len(stack) > 1 /\ stack[Len(stack)].level > level
  THEN pop_stack_above(SubSeq(stack, 1, Len(stack) - 1), level)
  ELSE stack

\* while len(stack) > 1 and stack[-1][1] >= level: stack.pop()
RECURSIVE pop_stack(_, _)
pop_stack(stack, level) ==
  IF Len(stack) > 1 /\ stack[Len(stack)].level >= level
  THEN pop_stack(SubSeq(stack, 1, Len(stack) - 1), level)
  ELSE stack

RECURSIVE rebuild_loop(_, _, _, _)
rebuild_loop(processed, i, root, stack) ==
  IF i > Len(processed) THEN root
  ELSE LET item   == processed[i].item
           level  == processed[i].level
           st     == pop_stack(stack, level)
           parent == st[Len(st)].path
           root2  == AppendAt(root, parent, item)
           here   == Append(parent, LenAt(root2, parent))
       IN  rebuild_loop(processed, i + 1, root2,
                        Append(st, [path |-> here, level |-> level]))

rebuild_hierarchy(items_with_levels) ==
  LET processed ==
        [i \in DOMAIN items_with_levels |->
           [item  |-> [items_with_levels[i].item EXCEPT
                         !.level = items_with_levels[i].level,
                         !.children = <<>>],
            level |-> items_with_levels[i].level]]
  IN  rebuild_loop(processed, 1, <<>>, <<[path |-> <<>>, level |-> -1]>>)

\* NestingFixer.fix_nesting, on the 'items' of the structure.
fix_nesting(items) ==
  rebuild_hierarchy(detect_levels(flatten_items(items, 0)))

\* NestingFixer._find_orphaned_items
RECURSIVE find_orphaned_items(_, _)
find_orphaned_items(items, parent_level) ==
  IF items = <<>> THEN <<>>
  ELSE LET item == Head(items)
       IN  (IF parent_level = -1
               /\ matches_pattern(strip(item.title), SUBSECTION_PATTERNS)
            THEN <<item>> ELSE <<>>)
           \o (IF item.children # <<>>
               THEN find_orphaned_items(item.children, item.level) ELSE <<>>)
           \o find_orphaned_items(Tail(items), parent_level)

\* The issues NestingFixer.analyze_issues lists, without their description
\* text: the items whose detected level is not their level, then the orphans.
level_issues(items_with_levels, orphans) ==
  LET wrong == SelectSeq(items_with_levels, LAMBDA p : p.level # p.item.level)
  IN  [i \in DOMAIN wrong |->
         [title |-> wrong[i].item.title, type |-> "incorrect_level",
          current_level |-> wrong[i].item.level,
          suggested_level |-> wrong[i].level]]
      \o [i \in DOMAIN orphans |->
            [title |-> orphans[i].title, type |-> "orphaned_item",
             current_level |-> orphans[i].level,
             suggested_level |-> orphans[i].level + 1]]

\* NestingFixer.analyze_issues, on the 'items' of the structure as values.
nesting_issues(items) ==
  level_issues(detect_levels(flatten_items(items, 0)), find_orphaned_items(items, -1))

-----------------------------------------------------------------------------
(* NestingFixer: renumbering.                                               *)

\* str(n) for n >= 0
RECURSIVE IntToStr(_)
IntToStr(n) ==
  LET d == <<"0","1","2","3","4","5","6","7","8","9">>[(n % 10) + 1]
  IN  IF n < 10 THEN <<d>> ELSE Append(IntToStr(n \div 10), d)

\* The text the dot of a pattern matches to the end, for the closing $ of
\* the pattern: a non-empty run without a line break that ends the text or
\* stands before its final line break.  The set holding it, or empty.
DotPlusToEnd(s, from) ==
  LET r == SubStr(s, from, Len(s))
      x == IF r # <<>> /\ r[Len(r)] = "\n" THEN SubStr(r, 1, Len(r) - 1) ELSE r
  IN  IF x # <<>> /\ \A i \in DOMAIN x : x[i] # "\n" THEN {x} ELSE {}

(* re.match in _renumber_items: the number part, then one or more dots or   *)
(* whitespace characters, then group 2, the rest of the title.  The number  *)
(* part and the separators are greedy: of the ways to match, the one with   *)
(* the longest number part and then the longest separator run is taken.    *)
(* The result is the set holding group 2, empty when there is no match.    *)
renumber_match(title) ==
  LET sep   == {"."} \cup Whitespace
      cands == { c \in NumberPrefixEnds(title) \X (1..Len(title)) :
                   /\ c[2] > c[1]
                   /\ c[2] <= c[1] + RunLen(sep, title, c[1])
                   /\ DotPlusToEnd(title, c[2] + 1) # {} }
  IN  IF cands = {} THEN {}
      ELSE LET e == SetMax({ c[1] : c \in cands })
               f == SetMax({ c[2] : c \in { x \in cands : x[1] = e } })
           IN  DotPlusToEnd(title, f + 1)

\* A variant of the new title that keeps the whole old title, not group 2.
renumbered_title_whole(new_number, title, rest) ==
  new_number \o <<".", " ">> \o title

\* new_item['title'] = f"{new_number}. {match.group(2)}"
renumbered_title(new_number, title, rest) ==
  new_number \o <<".", " ">> \o rest

\* NestingFixer._renumber_items; renumber_loop is its for loop, with the
\* items still to visit, the prefix, chapter_count and the result so far.
RECURSIVE renumber_loop(_, _, _, _)
renumber_loop(items, prefix, chapter_count, result) ==
  IF items = <<>> THEN result
  ELSE LET item  == Head(items)
           match == renumber_match(item.title)
           count == IF match # {} THEN chapter_count + 1 ELSE chapter_count
           new_number == IF prefix # <<>>
                         THEN prefix \o <<".">> \o IntToStr(count)
                         ELSE IntToStr(count)
           title == IF match # {}
                    THEN renumbered_title(new_number, item.title,
                                          CHOOSE r \in match : TRUE)
                    ELSE item.title
           children == IF item.children # <<>>
                       THEN renumber_loop(item.children,
                                          IF match # {} THEN new_number ELSE prefix,
                                          0, <<>>)
                       ELSE <<>>
       IN  renumber_loop(Tail(items), prefix, count,
                         Append(result, [item EXCEPT !.title = title,
                                                     !.children = children]))

renumber_items(items, prefix) == renumber_loop(items, prefix, 0, <<>>)

\* NestingFixer.fix_numbering_sequence, on the 'items' of the structure.
fix_numbering_sequence(items) == renumber_items(items, <<>>)

-----------------------------------------------------------------------------
(* NestingFixer: merging of duplicate entries.                              *)

\* key = (item.get('title', ''), item.get('href', ''))
merge_key(item) == <<item.title, item.href>>

\* A variant that puts the children of the later duplicate first.
merged_children_later_first(existing_children, item_children) ==
  item_children \o existing_children

\* existing['children'] = existing_children + item['children']
merged_children(existing_children, item_children) ==
  existing_children \o item_children

(* NestingFixer._merge_duplicates; merge_loop is its for loop.  seen maps a *)
(* key to the item of result that has it, the very object: it is modelled   *)
(* by the index of that item in result.                                     *)
RECURSIVE merge_loop(_, _)
merge_loop(items, result) ==
  IF items = <<>> THEN result
  ELSE LET item == Head(items)
           seen == { j \in DOMAIN result : merge_key(result[j]) = merge_key(item) }
       IN  IF seen # {}
           THEN LET j == CHOOSE k \in seen : TRUE
                IN  merge_loop(Tail(items),
                      IF item.children # <<>>
                      THEN [result EXCEPT ![j].children =
                              merged_children(@, item.children)]
                      ELSE result)
           ELSE merge_loop(Tail(items),
                  Append(result,
                    [item EXCEPT !.children =
                       IF item.children # <<>>
                       THEN merge_loop(item.children, <<>>) ELSE <<>>]))

merge_duplicates(items) == merge_loop(items, <<>>)

\* NestingFixer.merge_duplicate_entries, on the 'items' of the structure.
merge_duplicate_entries(items) == merge_duplicates(items)

-----------------------------------------------------------------------------
(* LinkFixer: characters and their codes.  A character is a string; the    *)
(* characters TLA+ cannot write (the control characters, the grave accent) *)
(* are named.                                                              *)

ASCII == <<
  "NUL","SOH","STX","ETX","EOT","ENQ","ACK","BEL","BS","\t","\n","VT","\f","\r","SO","SI",
  "DLE","DC1","DC2","DC3","DC4","NAK","SYN","ETB","CAN","EM","SUB","ESC","FS","GS","RS","US",
  " ","!","\"","#","$","%","&","'","(",")","*","+",",","-",".","/",
  "0","1","2","3","4","5","6","7","8","9",":",";","<","=",">","?",
  "@","A","B","C","D","E","F","G","H","I","J","K","L","M","N","O",
  "P","Q","R","S","T","U","V","W","X","Y","Z","[","\\","]","^","_",
  "GRAVE","a","b","c","d","e","f","g","h","i","j","k","l","m","n","o",
  "p","q","r","s","t","u","v","w","x","y","z","{","|","}","~","DEL" >>

Ord(c) == IndexIn(ASCII, c) - 1
Chr(n) == ASCII[n + 1]

\* What a byte above 0x7f that is no part of a UTF-8 sequence decodes to
\* under errors='replace'.
REPLACEMENT_CHARACTER == "U+FFFD"

HexUpper == <<"0","1","2","3","4","5","6","7","8","9","A","B","C","D","E","F">>
HexLower == <<"0","1","2","3","4","5","6","7","8","9","a","b","c","d","e","f">>
Hex == Range(HexUpper) \cup Range(HexLower)

HexValue(c) ==
  IF c \in Range(HexUpper) THEN IndexIn(HexUpper, c) - 1 ELSE IndexIn(HexLower, c) - 1

\* str.isalnum() and str.isalpha() on one ASCII character
isalnum(c) == c \in Alpha \cup Digit
isalpha(c) == c \in Alpha

\* \w of the re module on ASCII text
WordChars == Alpha \cup Digit \cup {"_"}

RECURSIVE Concat(_)
Concat(seqs) == IF seqs = <<>> THEN <<>> ELSE Head(seqs) \o Concat(Tail(seqs))

\* str.find(c, start) and str.rfind(c), positions counted from 1, 0 for -1
Find(s, c, start) ==
  LET at == { i \in DOMAIN s : i >= start /\ s[i] = c }
  IN  IF at = {} THEN 0 ELSE CHOOSE i \in at : \A j \in at : i <= j

RFind(s, c) ==
  LET at == { i \in DOMAIN s : s[i] = c }
  IN  IF at = {} THEN 0 ELSE SetMax(at)

\* s[n:]
Drop(s, n) == SubStr(s, n + 1, Len(s))

\* str.lstrip(chars)
lstrip(s, chars) ==
  LET keep == { i \in DOMAIN s : s[i] \notin chars }
  IN  IF keep = {} THEN <<>>
      ELSE Drop(s, (CHOOSE i \in keep : \A j \in keep : i <= j) - 1)

\* The text without the characters of chars
Remove(s, chars) == SelectSeq(s, LAMBDA c : c \notin chars)

\* str.replace(c, with) for one character c
replace(s, c, with) ==
  Concat([i \in DOMAIN s |-> IF s[i] = c THEN with ELSE <<s[i]>>])

\* str.split(c, 1): the text before the first c and the text after it
split_once(s, c) ==
  LET i == Find(s, c, 1)
  IN  IF i = 0 THEN <<s, <<>>>> ELSE <<SubStr(s, 1, i - 1), Drop(s, i)>>

-----------------------------------------------------------------------------
(* urllib.parse, as far as LinkFixer uses it.                              *)

\* urllib.parse.unquote on ASCII text: every % followed by two hexadecimal
\* digits becomes the character with that code.
RECURSIVE unquote_from(_, _)
unquote_from(s, i) ==
  IF i > Len(s) THEN <<>>
  ELSE IF s[i] = "%" /\ i + 2 <= Len(s) /\ s[i + 1] \in Hex /\ s[i + 2] \in Hex
  THEN LET byte == 16 * HexValue(s[i + 1]) + HexValue(s[i + 2])
       IN  <<IF byte < 128 THEN Chr(byte) ELSE REPLACEMENT_CHARACTER>>
           \o unquote_from(s, i + 3)
  ELSE <<s[i]>> \o unquote_from(s, i + 1)

unquote(s) == unquote_from(s, 1)

\* The characters urllib.parse.quote never escapes.
ALWAYS_SAFE == Alpha \cup Digit \cup {"_", ".", "-", "~"}

\* urllib.parse.quote(char, safe='') for one character
quote(c) ==
  IF c \in ALWAYS_SAFE THEN <<c>>
  ELSE IF c = REPLACEMENT_CHARACTER
  THEN <<"%","E","F","%","B","F","%","B","D">>
  ELSE <<"%", HexUpper[(Ord(c) \div 16) + 1], HexUpper[(Ord(c) % 16) + 1]>>

C0_CONTROL_OR_SPACE == { ASCII[i] : i \in 1..33 }
UNSAFE_URL_BYTES_TO_REMOVE == {"\t", "\r", "\n"}
scheme_chars == Alpha \cup Digit \cup {"+", "-", "."}

uses_params == {
  <<>>,
  <<"f","t","p">>,
  <<"h","d","l">>,
  <<"p","r","o","s","p","e","r","o">>,
  <<"h","t","t","p">>,
  <<"i","m","a","p">>,
  <<"h","t","t","p","s">>,
  <<"s","h","t","t","p">>,
  <<"r","t","s","p">>,
  <<"r","t","s","p","s">>,
  <<"r","t","s","p","u">>,
  <<"s","i","p">>,
  <<"s","i","p","s">>,
  <<"m","m","s">>,
  <<"s","f","t","p">>,
  <<"t","e","l">> }

\* The bracketed hosts ipaddress accepts, of those a modelled target holds.
BracketedHosts == { <<":",":","1">> }

\* urllib.parse._splitnetloc(url, 2): the position of the first of / ? #
\* after the two slashes, the length plus one when there is none.
netloc_end(url) ==
  LET at == { i \in DOMAIN url : i >= 3 /\ url[i] \in {"/", "?", "#"} }
  IN  IF at = {} THEN Len(url) + 1 ELSE CHOOSE i \in at : \A j \in at : i <= j

\* urllib.parse._splitparams
splitparams(url) ==
  LET i == IF "/" \in Range(url) THEN Find(url, ";", RFind(url, "/"))
           ELSE Find(url, ";", 1)
  IN  IF i = 0 THEN <<url, <<>>>> ELSE <<SubStr(url, 1, i - 1), Drop(url, i)>>

\* The ValueError of urlsplit: a bracket without its partner in the host
\* part, or a host in brackets that is no address.
invalid_netloc(netloc) ==
  LET open  == "[" \in Range(netloc)
      close == "]" \in Range(netloc)
  IN  \/ open /\ ~close
      \/ close /\ ~open
      \/ open /\ close
         /\ split_once(split_once(netloc, "[")[2], "]")[1] \notin BracketedHosts

\* The result of urlparse; 'raised' stands for the ValueError.
ParseResult(scheme, netloc, path, query, fragment) ==
  [raised   |-> invalid_netloc(netloc),
   scheme   |-> scheme,
   netloc   |-> netloc,
   path     |-> path[1],
   params   |-> path[2],
   query    |-> query,
   fragment |-> fragment]

\* urlparse: the parameters split from the path, for the schemes with
\* parameters.
parse_params(scheme, netloc, url, query, fragment) ==
  ParseResult(scheme, netloc,
              IF scheme \in uses_params /\ ";" \in Range(url)
              THEN splitparams(url) ELSE <<url, <<>>>>,
              query, fragment)

\* urlsplit: the query split from the text before the fragment.
parse_query(scheme, netloc, url, fragment) ==
  parse_params(scheme, netloc, split_once(url, "?")[1], split_once(url, "?")[2],
               fragment)

\* urlsplit: the fragment split from the text after the host part.
parse_fragment(scheme, netloc, url) ==
  parse_query(scheme, netloc, split_once(url, "#")[1], split_once(url, "#")[2])

\* urlsplit: the host part split from the text after the scheme.
parse_netloc(scheme, url) ==
  IF startswith(url, <<"/", "/">>)
  THEN parse_fragment(scheme, SubStr(url, 3, netloc_end(url) - 1),
                      Drop(url, netloc_end(url) - 1))
  ELSE parse_fragment(scheme, <<>>, url)

\* urlsplit: the scheme split from the text, i the position of the first
\* colon.
parse_scheme(url, i) ==
  IF i > 1 /\ isalpha(url[1]) /\ \A k \in 1..(i - 1) : url[k] \in scheme_chars
  THEN parse_netloc(lower(SubStr(url, 1, i - 1)), Drop(url, i))
  ELSE parse_netloc(<<>>, url)

\* urlsplit of the text without its leading and its unsafe characters.
urlsplit(url) == parse_scheme(url, Find(url, ":", 1))

\* urllib.parse.urlparse(href)
urlparse(href) ==
  urlsplit(Remove(lstrip(href, C0_CONTROL_OR_SPACE), UNSAFE_URL_BYTES_TO_REMOVE))

-----------------------------------------------------------------------------
(* LinkFixer: the text of a link.                                          *)

\* The schemes _fix_link and _check_link skip.
EXTERNAL_SCHEMES == {
  <<"h","t","t","p">>, <<"h","t","t","p","s">>,
  <<"m","a","i","l","t","o">>, <<"f","t","p">> }

\* The characters _fix_url_encoding keeps: char in '-_./%#'
KEPT_CHARACTERS == {"-", "_", ".", "/", "%", "#"}

\* The loop of LinkFixer._fix_url_encoding over the characters.
escape_characters(fixed) ==
  Concat([i \in DOMAIN fixed |->
            IF isalnum(fixed[i]) \/ fixed[i] \in KEPT_CHARACTERS THEN <<fixed[i]>>
            ELSE IF fixed[i] = " " THEN <<"%", "2", "0">>
            ELSE quote(fixed[i])])

\* LinkFixer._fix_url_encoding
fix_url_encoding(path) ==
  IF path = <<>> THEN path
  ELSE escape_characters(replace(unquote(path), " ", <<"%", "2", "0">>))

\* The characters of the class [\w\-._:]
FRAGMENT_CHARACTERS == WordChars \cup {"-", ".", "_", ":"}

\* A variant of _fix_fragment that only removes characters.
fix_fragment_stripped(fragment) ==
  SelectSeq(fragment, LAMBDA c : c \in FRAGMENT_CHARACTERS)

\* LinkFixer._fix_fragment
fix_fragment(fragment) ==
  IF fragment = <<>> THEN fragment
  ELSE LET fixed == SelectSeq(fragment, LAMBDA c : c \in FRAGMENT_CHARACTERS)
       IN  IF fixed # <<>> /\ ~(isalpha(fixed[1]) \/ fixed[1] = "_")
           THEN <<"_">> \o fixed ELSE fixed

\* The positions of s where $ matches: the end, and before a last newline.
AtEnd(s, k) == k = Len(s) \/ (k = Len(s) - 1 /\ s[Len(s)] = "\n")

\* LinkFixer._is_valid_fragment
is_valid_fragment(fragment) ==
  IF fragment = <<>> THEN TRUE
  ELSE IF ~(isalpha(fragment[1]) \/ fragment[1] = "_") THEN FALSE
  ELSE \E k \in 1..Len(fragment) :
         /\ AtEnd(fragment, k)
         /\ \A j \in 1..k : fragment[j] \in FRAGMENT_CHARACTERS

\* The text s holds the text w.
contains(s, w) ==
  \E i \in 0..(Len(s) - Len(w)) : SubStr(s, i + 1, i + Len(w)) = w

\* LinkFixer._has_encoding_issues.  Of the malformed escapes the search
\* finds a % followed by a character that is no hexadecimal digit, a % and
\* a character (no newline) followed by such a character, a % at the end,
\* and a % and a character (no newline) at the end.
has_encoding_issues(href) ==
  \/ " " \in Range(split_once(href, "#")[1])
  \/ contains(href, <<"%", "2", "5">>)
  \/ \E i \in DOMAIN href :
       /\ href[i] = "%"
       /\ \/ i + 1 <= Len(href) /\ href[i + 1] \notin Hex
          \/ i + 2 <= Len(href) /\ href[i + 1] # "\n" /\ href[i + 2] \notin Hex
          \/ AtEnd(href, i)
          \/ i + 1 <= Len(href) /\ href[i + 1] # "\n" /\ AtEnd(href, i + 1)

-----------------------------------------------------------------------------
(* The file system, as os and os.path show it to LinkFixer.  A file system *)
(* is a function from the absolute paths of its nodes, each a sequence of  *)
(* names, to the nodes; a directory lists its entries in the order         *)
(* os.listdir returns them.                                                *)

Directory(entries) ==
  [kind |-> "dir", entries |-> entries, content |-> <<>>, readable |-> TRUE]
File(content, readable) ==
  [kind |-> "file", entries |-> <<>>, content |-> content, readable |-> readable]

\* A file system with an empty root directory.
NoFiles == (<<>> :> Directory(<<>>))

\* str.split(sep)
RECURSIVE split(_, _)
split(s, sep) ==
  LET i == Find(s, sep, 1)
  IN  IF i = 0 THEN <<s>> ELSE <<SubStr(s, 1, i - 1)>> \o split(Drop(s, i), sep)

\* '/'.join(parts)
RECURSIVE join_parts(_)
join_parts(parts) ==
  IF parts = <<>> THEN <<>>
  ELSE IF Len(parts) = 1 THEN parts[1]
  ELSE parts[1] \o <<"/">> \o join_parts(Tail(parts))

\* os.path.join(a, b)
path_join(a, b) ==
  IF startswith(b, <<"/">>) THEN b
  ELSE IF a = <<>> \/ a[Len(a)] = "/" THEN a \o b
  ELSE a \o <<"/">> \o b

\* The components os.path.normpath keeps.
RECURSIVE norm_comps(_, _, _, _)
norm_comps(comps, i, initial_slashes, new_comps) ==
  IF i > Len(comps) THEN new_comps
  ELSE LET comp == comps[i]
       IN  IF comp \in { <<>>, <<".">> }
           THEN norm_comps(comps, i + 1, initial_slashes, new_comps)
           ELSE IF \/ comp # <<".", ".">>
                   \/ (initial_slashes = 0 /\ new_comps = <<>>)
                   \/ (new_comps # <<>> /\ new_comps[Len(new_comps)] = <<".", ".">>)
           THEN norm_comps(comps, i + 1, initial_slashes, Append(new_comps, comp))
           ELSE IF new_comps # <<>>
           THEN norm_comps(comps, i + 1, initial_slashes,
                           SubSeq(new_comps, 1, Len(new_comps) - 1))
           ELSE norm_comps(comps, i + 1, initial_slashes, new_comps)

\* os.path.normpath
normpath(path) ==
  IF path = <<>> THEN <<".">>
  ELSE LET initial_slashes ==
             IF ~startswith(path, <<"/">>) THEN 0
             ELSE IF startswith(path, <<"/", "/">>)
                     /\ ~startswith(path, <<"/", "/", "/">>) THEN 2
             ELSE 1
           joined == join_parts(norm_comps(split(path, "/"), 1, initial_slashes, <<>>))
           result == [i \in 1..initial_slashes |-> "/"] \o joined
       IN  IF result = <<>> THEN <<".">> ELSE result

\* os.path.splitext: the extension starts at the last dot of the last
\* component, unless only dots come before it there.
splitext(p) ==
  LET sepIndex == RFind(p, "/")
      dotIndex == RFind(p, ".")
  IN  IF dotIndex > sepIndex
         /\ \E k \in (sepIndex + 1)..(dotIndex - 1) : p[k] # "."
      THEN <<SubStr(p, 1, dotIndex - 1), Drop(p, dotIndex - 1)>>
      ELSE <<p, <<>>>>

\* The node an absolute path names: every name but the last has to name a
\* directory.  The result is the set holding the node's path, empty when
\* the path names nothing.
RECURSIVE walk(_, _, _, _)
walk(files, parts, i, cur) ==
  IF cur \notin DOMAIN files THEN {}
  ELSE IF i > Len(parts) THEN {cur}
  ELSE IF files[cur].kind # "dir" THEN {}
  ELSE IF parts[i] \in { <<>>, <<".">> } THEN walk(files, parts, i + 1, cur)
  ELSE IF parts[i] = <<".", ".">>
  THEN walk(files, parts, i + 1, SubSeq(cur, 1, Len(cur) - (IF cur = <<>> THEN 0 ELSE 1)))
  ELSE walk(files, parts, i + 1, Append(cur, parts[i]))

resolve(files, path) == walk(files, split(path, "/"), 1, <<>>)

\* os.path.isfile
isfile(files, path) == \E n \in resolve(files, path) : files[n].kind = "file"

\* os.listdir: the entries, 'raised' for OSError
listdir(files, path) ==
  IF \E n \in resolve(files, path) : files[n].kind = "dir"
  THEN [raised |-> FALSE,
        value  |-> files[CHOOSE n \in resolve(files, path) : TRUE].entries]
  ELSE [raised |-> TRUE, value |-> <<>>]

\* open(path, 'r').read(): the text, 'raised' for OSError
read(files, path) ==
  IF \E n \in resolve(files, path) : files[n].kind = "file" /\ files[n].readable
  THEN [raised |-> FALSE,
        value  |-> files[CHOOSE n \in resolve(files, path) : TRUE].content]
  ELSE [raised |-> TRUE, value |-> <<>>]

-----------------------------------------------------------------------------
(* LinkFixer: the instance and its methods.  A method that reads the file  *)
(* system gets the instance f and the file system, and returns the         *)
(* instance with its caches as the call leaves them, whether the call      *)
(* raised, and the value returned.  No content root is the empty path:     *)
(* the source tests the root for truth only.                               *)

\* LinkFixer.__init__
LinkFixer(content_base_path) ==
  [content_base_path |-> content_base_path, file_cache |-> <<>>, id_cache |-> <<>>]

Return(f, value) == [fixer |-> f, raised |-> FALSE, value |-> value]
Raise(f)         == [fixer |-> f, raised |-> TRUE, value |-> <<>>]

\* LinkFixer._file_exists
file_exists(f, files, path) ==
  IF path \in DOMAIN f.file_cache THEN Return(f, f.file_cache[path])
  ELSE LET exists == isfile(files, path)
       IN  Return([f EXCEPT !.file_cache = @ @@ (path :> exists)], exists)

RECURSIVE find_parts(_, _, _, _, _)

\* LinkFixer._find_file_case_insensitive: the first entry that is the part
\* when letters are told apart by name only, hits the indexes of such
\* entries.
match_part(files, parts, i, current_path, result_parts, entries, hits) ==
  IF hits = {} THEN <<>>
  ELSE find_parts(files, parts, i + 1,
                  path_join(current_path,
                            entries[CHOOSE k \in hits : \A j \in hits : k <= j]),
                  Append(result_parts,
                         entries[CHOOSE k \in hits : \A j \in hits : k <= j]))

\* LinkFixer._find_file_case_insensitive: part i looked up in what
\* os.listdir returned for the current path.
list_part(files, parts, i, current_path, result_parts, entries) ==
  IF entries.raised THEN <<>>
  ELSE match_part(files, parts, i, current_path, result_parts, entries.value,
                  { k \in DOMAIN entries.value :
                      lower(entries.value[k]) = lower(parts[i]) })

\* The loop of LinkFixer._find_file_case_insensitive; the result is the
\* sequence holding the parts matched, empty for None.
find_parts(files, parts, i, current_path, result_parts) ==
  IF i > Len(parts) THEN <<result_parts>>
  ELSE IF parts[i] = <<>>
  THEN find_parts(files, parts, i + 1, current_path, result_parts)
  ELSE list_part(files, parts, i, current_path, result_parts,
                 listdir(files, current_path))

\* '/'.join(result_parts) if result_parts else None
found_path(found) ==
  IF found = <<>> \/ found[1] = <<>> THEN <<>> ELSE <<join_parts(found[1])>>

\* LinkFixer._find_file_case_insensitive: the sequence holding the path
\* found, empty for None.
find_file_case_insensitive(f, files, path) ==
  IF f.content_base_path = <<>> THEN <<>>
  ELSE found_path(find_parts(files, split(replace(path, "\\", <<"/">>), "/"), 1,
                             f.content_base_path, <<>>))

EXTENSIONS == <<
  <<".","x","h","t","m","l">>, <<".","h","t","m","l">>,
  <<".","h","t","m">>, <<".","x","m","l">> >>

RECURSIVE try_extensions(_, _, _, _, _)

\* LinkFixer._fix_file_path: extension k tried, exists what _file_exists
\* returned for the path with it.
tried_extension(files, base, k, path, exists) ==
  IF exists.value THEN Return(exists.fixer, base \o EXTENSIONS[k])
  ELSE try_extensions(exists.fixer, files, base, k + 1, path)

\* The loop over the extensions of LinkFixer._fix_file_path.
try_extensions(f, files, base, k, path) ==
  IF k > Len(EXTENSIONS) THEN Return(f, path)
  ELSE tried_extension(files, base, k, path,
                       file_exists(f, files,
                                   path_join(f.content_base_path,
                                             base \o EXTENSIONS[k])))

\* LinkFixer._fix_file_path: the search that ignores case, then the
\* extensions, fixed_path what _find_file_case_insensitive returned.
fix_missing(f, files, path, normalized, fixed_path) ==
  IF fixed_path # <<>> /\ fixed_path[1] # <<>> THEN Return(f, fixed_path[1])
  ELSE try_extensions(f, files, splitext(normalized)[1], 1, path)

\* A variant of _fix_file_path that tries the extensions before the search
\* that ignores case.
extensions_first(path, fixed_path, tried) ==
  IF tried.value # path \/ fixed_path = <<>> \/ fixed_path[1] = <<>> THEN tried
  ELSE Return(tried.fixer, fixed_path[1])

fix_extensions_first(files, path, normalized, exists) ==
  IF exists.value THEN Return(exists.fixer, path)
  ELSE extensions_first(path,
                        find_file_case_insensitive(exists.fixer, files, normalized),
                        try_extensions(exists.fixer, files, splitext(normalized)[1], 1, path))

\* LinkFixer._fix_file_path, exists what _file_exists returned for the
\* normalized path.
fix_normalized(files, path, normalized, exists) ==
  IF exists.value THEN Return(exists.fixer, path)
  ELSE fix_missing(exists.fixer, files, path, normalized,
                   find_file_case_insensitive(exists.fixer, files, normalized))

\* LinkFixer._fix_file_path, from the normalized path on.
fix_file(f, files, path, normalized) ==
  fix_normalized(files, path, normalized,
                 file_exists(f, files, path_join(f.content_base_path, normalized)))

\* LinkFixer._fix_file_path
fix_file_path(f, files, path) ==
  IF f.content_base_path = <<>> THEN Return(f, path)
  ELSE fix_file(f, files, path, normpath(path))

\* re.search of an attribute whose value is the fragment: the attribute
\* name, an equals sign with whitespace around it, an optional quote, the
\* fragment, and a quote, whitespace or '>'; letters in either case.
attribute_pattern(name, fragment) ==
  Word(name)
  \o <<Star(Whitespace), One({"="}), Star(Whitespace), Opt({"\"", "'"})>>
  \o Word(fragment)
  \o <<One({"\"", "'", ">"} \cup Whitespace)>>

search(pat, s) == \E start \in 0..Len(s) : PatEnds(pat, 1, s, {start}) # {}

\* LinkFixer._fragment_exists: the file read and searched for the anchor.
search_file(f, cache_key, fragment, content) ==
  IF content.raised THEN Return(f, TRUE)
  ELSE IF \/ search(attribute_pattern(<<"i","d">>, fragment), content.value)
          \/ search(attribute_pattern(<<"n","a","m","e">>, fragment), content.value)
  THEN Return([f EXCEPT !.id_cache = @ @@ (cache_key :> TRUE)], TRUE)
  ELSE Return([f EXCEPT !.id_cache = @ @@ (cache_key :> FALSE)], FALSE)

\* LinkFixer._fragment_exists, from the full path on.
cached_fragment(f, files, full_path, fragment) ==
  IF <<full_path, fragment>> \in DOMAIN f.id_cache
  THEN Return(f, f.id_cache[<<full_path, fragment>>])
  ELSE search_file(f, <<full_path, fragment>>, fragment, read(files, full_path))

\* LinkFixer._fragment_exists
fragment_exists(f, files, file_path, fragment) ==
  IF f.content_base_path = <<>> THEN Return(f, TRUE)
  ELSE cached_fragment(f, files, path_join(f.content_base_path, file_path), fragment)

\* LinkFixer._fix_link: the link put together again.
fixed_href(fixed_path, fixed_fragment) ==
  Return(fixed_path.fixer,
         fixed_path.value
         \o (IF fixed_fragment # <<>> THEN <<"#">> \o fixed_fragment ELSE <<>>))

\* LinkFixer._fix_link: the path of an internal link, encoded, looked up.
fix_path(f, files, encoded) ==
  IF f.content_base_path # <<>> /\ encoded # <<>>
  THEN fix_file_path(f, files, encoded)
  ELSE Return(f, encoded)

\* LinkFixer._fix_link, from the parsed link on.
fix_parsed(f, files, href, parsed) ==
  IF parsed.raised THEN Raise(f)
  ELSE IF parsed.scheme \in EXTERNAL_SCHEMES THEN Return(f, href)
  ELSE fixed_href(fix_path(f, files, fix_url_encoding(parsed.path)),
                  fix_fragment(parsed.fragment))

\* LinkFixer._fix_link
fix_link(f, files, href) ==
  IF href = <<>> THEN Return(f, href)
  ELSE fix_parsed(f, files, href, urlparse(href))

\* LinkFixer._suggest_fix
suggest_fix(f, files, href) == fix_link(f, files, href)

\* One part of the description of a broken link: its text and the path or
\* fragment it names.
Problem(text, arg) == [text |-> text, arg |-> arg]

\* LinkFixer._check_link: the issue made of the problems found, with the
\* fix suggested.
broken_link(href, title, issues, suggested) ==
  Return(suggested.fixer,
         <<[title |-> title, type |-> "broken_link", description |-> issues,
            href |-> href, suggested_href |-> <<suggested.value>>]>>)

\* LinkFixer._check_link, the four checks done: exists and found are what
\* _file_exists and _fragment_exists returned.
report(files, href, title, parsed, exists, found) ==
  LET issues ==
        (IF has_encoding_issues(href)
         THEN <<Problem("URL encoding issues", <<>>)>> ELSE <<>>)
        \o (IF parsed.fragment # <<>> /\ ~is_valid_fragment(parsed.fragment)
            THEN <<Problem("Invalid fragment identifier", parsed.fragment)>>
            ELSE <<>>)
        \o (IF ~exists.value
            THEN <<Problem("File not found", parsed.path)>> ELSE <<>>)
        \o (IF ~found.value
            THEN <<Problem("Fragment not found in file", parsed.fragment)>>
            ELSE <<>>)
  IN  IF issues = <<>> THEN Return(found.fixer, <<>>)
      ELSE broken_link(href, title, issues, suggest_fix(found.fixer, files, href))

\* LinkFixer._check_link: the fragment looked up in the file.
check_fragment(files, href, title, parsed, rooted, exists) ==
  report(files, href, title, parsed, exists,
         IF rooted /\ parsed.fragment # <<>>
         THEN fragment_exists(exists.fixer, files, parsed.path, parsed.fragment)
         ELSE Return(exists.fixer, TRUE))

\* LinkFixer._check_link: the file looked up below the content root.
check_file(f, files, href, title, parsed, rooted) ==
  check_fragment(files, href, title, parsed, rooted,
                 IF rooted
                 THEN file_exists(f, files,
                                  path_join(f.content_base_path, parsed.path))
                 ELSE Return(f, TRUE))

\* LinkFixer._check_link, from the parsed link on.
check_parsed(f, files, href, title, parsed) ==
  IF parsed.raised THEN Raise(f)
  ELSE IF parsed.scheme \in EXTERNAL_SCHEMES THEN Return(f, <<>>)
  ELSE check_file(f, files, href, title, parsed,
                  f.content_base_path # <<>> /\ parsed.path # <<>>)

\* LinkFixer._check_link: the sequence holding the issue, empty for None.
\* The description is the sequence of its parts.
check_link(f, files, href, title) ==
  IF href = <<>> THEN Return(f, <<>>)
  ELSE check_parsed(f, files, href, title, urlparse(href))

RECURSIVE fix_items_from(_, _, _, _, _)

\* LinkFixer._fix_items_links: the item fixed, appended, and the loop gone
\* on with the next.
fixed_item(files, items, i, fixed_items, link, children) ==
  IF children.raised THEN Raise(children.fixer)
  ELSE fix_items_from(children.fixer, files, items, i + 1,
                      Append(fixed_items,
                             [items[i] EXCEPT !.href = link.value,
                                              !.children = children.value]))

\* LinkFixer._fix_items_links: the children of item i fixed, link what
\* _fix_link returned for the item.
fix_children(files, items, i, fixed_items, link) ==
  IF link.raised THEN Raise(link.fixer)
  ELSE fixed_item(files, items, i, fixed_items, link,
                  IF items[i].children # <<>>
                  THEN fix_items_from(link.fixer, files, items[i].children, 1, <<>>)
                  ELSE Return(link.fixer, <<>>))

\* LinkFixer._fix_items_links: the loop from item i on, fixed_items the
\* items fixed so far.
fix_items_from(f, files, items, i, fixed_items) ==
  IF i > Len(items) THEN Return(f, fixed_items)
  ELSE fix_children(files, items, i, fixed_items,
                    IF items[i].href # <<>> THEN fix_link(f, files, items[i].href)
                    ELSE Return(f, items[i].href))

fix_items_links(f, files, items) == fix_items_from(f, files, items, 1, <<>>)

\* LinkFixer.fix_links, on the 'items' of the structure.
fix_links(f, files, items) == fix_items_links(f, files, items)

\* LinkFixer._analyze_items_links: the issue of an item without href.
missing_link(title) ==
  [title |-> title, type |-> "missing_link",
   description |-> <<Problem("Item has no href attribute", <<>>)>>,
   href |-> <<>>, suggested_href |-> <<>>]

RECURSIVE analyze_items_from(_, _, _, _, _)

\* LinkFixer._analyze_items_links: the loop gone on with the next item,
\* children what the call for the children of item i returned.
analyze_next(files, items, i, children) ==
  IF children.raised THEN Raise(children.fixer)
  ELSE analyze_items_from(children.fixer, files, items, i + 1, children.value)

\* LinkFixer._analyze_items_links: the children of item i analysed, issue
\* what _check_link returned for the item.
analyze_children(files, items, i, issues, issue) ==
  IF issue.raised THEN Raise(issue.fixer)
  ELSE analyze_next(files, items, i,
                    IF items[i].children # <<>>
                    THEN analyze_items_from(issue.fixer, files, items[i].children, 1,
                                            issues \o issue.value)
                    ELSE Return(issue.fixer, issues \o issue.value))

\* LinkFixer._analyze_items_links: the loop from item i on, issues the list
\* the issues are appended to.
analyze_items_from(f, files, items, i, issues) ==
  IF i > Len(items) THEN Return(f, issues)
  ELSE analyze_children(files, items, i, issues,
                        IF items[i].href # <<>>
                        THEN check_link(f, files, items[i].href, items[i].title)
                        ELSE Return(f, <<missing_link(items[i].title)>>))

analyze_items_links(f, files, items, issues) ==
  analyze_items_from(f, files, items, 1, issues)

\* LinkFixer.analyze_issues, on the 'items' of the structure.
link_issues(f, files, items) == analyze_items_links(f, files, items, <<>>)

-----------------------------------------------------------------------------
(* The TOC as objects.  Where an operation copies an item and writes to    *)
(* the copy, the items are dictionaries and lists that references name:    *)
(* heap.dicts[r] is the dictionary r with the reference of its children    *)
(* list, heap.lists[l] the list l of references to dictionaries, and       *)
(* heap.items the list the structure holds under 'items'.                  *)

NoObjects == [dicts |-> <<>>, lists |-> <<>>, items |-> 0]

\* The objects a parser builds for a tree of items.
RECURSIVE store_list(_, _)
RECURSIVE store_from(_, _, _, _)

\* The dictionary of item i, children what the call for its children
\* returned.
store_item(items, i, refs, children) ==
  store_from([children.heap EXCEPT
                !.dicts = Append(@, [items[i] EXCEPT !.children = children.ref])],
             items, i + 1, Append(refs, Len(children.heap.dicts) + 1))

store_from(h, items, i, refs) ==
  IF i > Len(items) THEN [heap |-> h, refs |-> refs]
  ELSE store_item(items, i, refs, store_list(h, items[i].children))

\* The list of the dictionaries stored.
stored_list(r) ==
  [heap |-> [r.heap EXCEPT !.lists = Append(@, r.refs)],
   ref  |-> Len(r.heap.lists) + 1]

store_list(h, items) == stored_list(store_from(h, items, 1, <<>>))

\* The objects with the list the structure holds under 'items'.
structure(r) == [r.heap EXCEPT !.items = r.ref]

Objects(items) == structure(store_list(NoObjects, items))

\* The tree a list of the heap holds, read through the references.
RECURSIVE tree_at(_, _)
tree_at(h, list) ==
  [i \in DOMAIN h.lists[list] |->
     [h.dicts[h.lists[list][i]] EXCEPT !.children = tree_at(h, @)]]

\* A variant of dict.copy() that hands out the dictionary itself.
dict_alias(h, item) == [heap |-> h, ref |-> item]

\* item.copy(): a new dictionary with the keys and values of item
dict_copy(h, item) ==
  [heap |-> [h EXCEPT !.dicts = Append(@, h.dicts[item])],
   ref  |-> Len(h.dicts) + 1]

RECURSIVE flatten_refs_from(_, _, _, _, _)

\* NestingFixer._flatten_items: flat.extend(...), and the loop gone on with
\* the next item; children what the call for the children returned.
flatten_next(items, i, level, flat, children) ==
  flatten_refs_from(children.heap, items, i + 1, level, flat \o children.value)

\* NestingFixer._flatten_items: if item.get('children'): ...
flatten_children(h, items, i, level, flat, item) ==
  flatten_next(items, i, level, flat,
               IF h.lists[h.dicts[item].children] # <<>>
               THEN flatten_refs_from(h, h.dicts[item].children, 1, level + 1, <<>>)
               ELSE [heap |-> h, value |-> <<>>])

\* NestingFixer._flatten_items: the copy of item given its level and a new,
\* empty children list, and appended; then the children of item flattened.
flatten_item(h, items, i, level, flat, item, flat_item) ==
  flatten_children([h EXCEPT !.dicts[flat_item].level = level,
                             !.lists = Append(@, <<>>),
                             !.dicts[flat_item].children = Len(h.lists) + 1],
                   items, i, level, Append(flat, flat_item), item)

\* NestingFixer._flatten_items: item copied, copy what item.copy() returned.
flatten_copy(items, i, level, flat, item, copy) ==
  flatten_item(copy.heap, items, i, level, flat, item, copy.ref)

\* NestingFixer._flatten_items on references: the loop from item i of the
\* list 'items' on, flat the list built so far.
flatten_refs_from(h, items, i, level, flat) ==
  IF i > Len(h.lists[items]) THEN [heap |-> h, value |-> flat]
  ELSE flatten_copy(items, i, level, flat, h.lists[items][i],
                    dict_copy(h, h.lists[items][i]))

\* NestingFixer.analyze_issues, flat what _flatten_items returned.
analyze_flat(flat) ==
  [heap  |-> flat.heap,
   value |-> level_issues(
               detect_levels([i \in DOMAIN flat.value |->
                                flat.heap.dicts[flat.value[i]]]),
               find_orphaned_items(tree_at(flat.heap, flat.heap.items), -1))]

\* NestingFixer.analyze_issues on references: the heap as the call leaves
\* it, and the issues.
analyze_issues(h) == analyze_flat(flatten_refs_from(h, h.items, 1, 0, <<>>))

\* The heap once a call returned: the dictionaries the call made are held
\* by its local lists only and go with them.
collect(h, before) ==
  [h EXCEPT
     !.dicts = SubSeq(@, 1, Len(before.dicts)),
     !.lists = SubSeq(@, 1, SetMax({Len(before.lists)}
                                   \cup { h.dicts[d].children :
                                            d \in 1..Len(before.dicts) }))]

-----------------------------------------------------------------------------
(* Regular expressions with groups.  The match the re module finds by      *)
(* backtracking, a greedy quantifier trying the longest run first and a    *)
(* lazy one the shortest, is computed in two passes: suffixes gives, for   *)
(* every element of the pattern, the positions from which the rest of the  *)
(* pattern can match, and match_from walks the pattern forward, every      *)
(* quantifier taking the longest (lazy: the shortest) run after which the  *)
(* rest can still match.  A pattern is a sequence of elements: a character *)
(* class with a quantifier, the start or the end of a group, or the anchor *)
(* $.  A match is the record of where it starts and ends and of the spans  *)
(* of its groups, positions counted as the characters before them; a       *)
(* search returns the sequence holding the first match, or the empty       *)
(* sequence.                                                               *)

Chars == Range(ASCII)

\* [^...]
Not(cls) == Chars \ cls

\* An atom with a greedy quantifier, with a lazy one, and with {min,max}.
Greedy(atom) ==
  [kind |-> "atom", cls |-> atom.cls, min |-> atom.min,
   max |-> IF atom.many THEN -1 ELSE 1, lazy |-> FALSE, group |-> 0]
Lazy(atom) == [Greedy(atom) EXCEPT !.lazy = TRUE]
UpTo(elem, max) == [elem EXCEPT !.max = max]
Open(g)  == [Greedy(One({})) EXCEPT !.kind = "open", !.group = g]
Close(g) == [Greedy(One({})) EXCEPT !.kind = "close", !.group = g]
End      == [Greedy(One({})) EXCEPT !.kind = "end"]

\* A run of greedy atoms, and a word under re.IGNORECASE.
Atoms(atoms) == [i \in DOMAIN atoms |-> Greedy(atoms[i])]
Text(w) == Atoms(Word(w))

\* ( ... ) as group g
Group(g, pat) == <<Open(g)>> \o pat \o <<Close(g)>>

\* The positions of s that hold no character of cls: a run of characters
\* of cls goes over none of them.
stops(cls, s) == { r \in 1..Len(s) : s[r] \notin cls }

\* The element can take the characters after position p up to position q.
within(elem, p, q, stopped) ==
  /\ p + elem.min <= q
  /\ elem.max < 0 \/ q - p <= elem.max
  /\ \A r \in stopped : r <= p \/ r > q

\* The first position from which a quantified element can reach position
\* q: the last stop before q, a position nearer when the element takes
\* max characters at most.
farthest(elem, q, stopped) ==
  IF elem.max < 0 THEN SetMax({0} \cup { r \in stopped : r <= q })
  ELSE SetMax({0, q - elem.max} \cup { r \in stopped : r <= q })

\* The positions from which a quantified element can reach one of the
\* positions 'after', stopped the positions it cannot go over.
reaching(elem, s, after, stopped) ==
  UNION { farthest(elem, q, stopped)..(q - elem.min) : q \in after }

\* The positions at which an element can match so that what follows it
\* matches, after the positions at which what follows it can match.
before(elem, s, after) ==
  IF elem.kind = "end" THEN { p \in after : AtEnd(s, p) }
  ELSE IF elem.kind # "atom" THEN after
  ELSE IF elem.min = 1 /\ elem.max = 1
  THEN { q - 1 : q \in { r \in after : r >= 1 /\ s[r] \in elem.cls } }
  ELSE reaching(elem, s, after, stops(elem.cls, s))

\* For every element of pat the positions at which the pattern can match
\* from that element on, and after the last element every position: the
\* backtracking of the re module succeeds from a position exactly when the
\* position is in the set.  later holds the sets of the elements after k;
\* once one of them is empty the sets before it are empty.
RECURSIVE suffixes(_, _, _, _)
suffixes(pat, k, s, later) ==
  IF k = 0 THEN later
  ELSE IF later[1] = {} THEN [i \in 1..k |-> {}] \o later
  ELSE suffixes(pat, k - 1, s, <<before(pat[k], s, later[1])>> \o later)

\* The characters the atom takes at position p: of the counts that let the
\* rest of the pattern match, the one the backtracking tries first, the
\* largest for a greedy quantifier and the smallest for a lazy one.
counts(elem, p, after, stopped) ==
  { q - p : q \in { r \in after : within(elem, p, r, stopped) } }

taken(elem, s, p, after) ==
  IF elem.min = 1 /\ elem.max = 1 THEN 1
  ELSE IF elem.lazy
  THEN SetMin(counts(elem, p, after, stops(elem.cls, s)))
  ELSE SetMax(counts(elem, p, after, stops(elem.cls, s)))

\* The match the backtracking finds from element k at position p on, can
\* the sets of suffixes and p a position of can[k].
RECURSIVE match_from(_, _, _, _, _, _)
match_from(pat, can, k, s, p, g) ==
  IF k > Len(pat) \/ p \notin can[k] THEN [end |-> p, groups |-> g]
  ELSE IF pat[k].kind = "open"
  THEN match_from(pat, can, k + 1, s, p, [g EXCEPT ![pat[k].group] = <<p, p>>])
  ELSE IF pat[k].kind = "close"
  THEN match_from(pat, can, k + 1, s, p, [g EXCEPT ![pat[k].group][2] = p])
  ELSE IF pat[k].kind = "end"
  THEN match_from(pat, can, k + 1, s, p, g)
  ELSE match_from(pat, can, k + 1, s, p + taken(pat[k], s, p, can[k + 1]), g)

\* The match that starts at a position, with the position.
started(found, start) ==
  [start |-> start, end |-> found.end, groups |-> found.groups]

\* The match at the first of the positions from start on at which the
\* pattern can match.
first_started(pat, n, s, can, starts) ==
  IF starts = {} THEN <<>>
  ELSE << started(match_from(pat, can, 1, s,
                             CHOOSE p \in starts : \A q \in starts : p <= q,
                             [i \in 1..n |-> <<0, 0>>]),
                  CHOOSE p \in starts : \A q \in starts : p <= q) >>

\* The match of a pattern with n groups at one of the positions lo..hi
matched_within(pat, n, s, lo, hi, can) ==
  first_started(pat, n, s, can, { p \in can[1] : lo <= p /\ p <= hi })

\* pattern.match(s): the sequence holding the match, or the empty one
re_match(pat, n, s) ==
  matched_within(pat, n, s, 0, 0, suffixes(pat, Len(pat), s, <<0..Len(s)>>))

\* pattern.search(s, start)
search_from(pat, n, s, start) ==
  matched_within(pat, n, s, start, Len(s), suffixes(pat, Len(pat), s, <<0..Len(s)>>))

\* pattern.search(s)
re_search(pat, n, s) == search_from(pat, n, s, 0)

\* match.group(i)
group(s, m, i) ==
  IF i = 0 THEN SubStr(s, m.start + 1, m.end)
  ELSE SubStr(s, m.groups[i][1] + 1, m.groups[i][2])

\* Of two matches the one that starts first, the first of them when both
\* start at the same position.
leftmost(first, second) ==
  IF first = <<>> THEN second
  ELSE IF second = <<>> THEN first
  ELSE IF second[1].start < first[1].start THEN second ELSE first

\* search of a pattern given by its alternatives, which follow a fixed
\* prefix: the match that starts first, of the first alternative that
\* matches there.
RECURSIVE search_alternatives(_, _, _, _, _)
search_alternatives(pats, i, n, s, start) ==
  IF i > Len(pats) THEN <<>>
  ELSE leftmost(search_from(pats[i], n, s, start),
                search_alternatives(pats, i + 1, n, s, start))

\* The sequence a comprehension builds, its elements computed once.
listed(elements) == elements \o <<>>

\* The suffixes of every alternative of a pattern on a text.
suffix_sets(pats, s) ==
  listed([i \in DOMAIN pats |-> suffixes(pats[i], Len(pats[i]), s, <<0..Len(s)>>)])

\* search_alternatives with the suffixes of the alternatives at hand
RECURSIVE search_among(_, _, _, _, _, _)
search_among(pats, cans, i, n, s, start) ==
  IF i > Len(pats) THEN <<>>
  ELSE leftmost(matched_within(pats[i], n, s, start, Len(s), cans[i]),
                search_among(pats, cans, i + 1, n, s, start))

\* A variant of finditer that stops at the first match.
found_once(pats, cans, n, s, found) == found

\* pattern.finditer(s): the matches one after another, none overlapping;
\* every pattern of the fixers takes at least one character.
RECURSIVE finditer_from(_, _, _, _, _)
found_next(pats, cans, n, s, found) ==
  IF found = <<>> THEN <<>>
  ELSE found \o finditer_from(pats, cans, n, s, found[1].end)

finditer_from(pats, cans, n, s, start) ==
  found_next(pats, cans, n, s, search_among(pats, cans, 1, n, s, start))

finditer(pats, n, s, start) == finditer_from(pats, suffix_sets(pats, s), n, s, start)

\* pattern.sub(repl, s): the text with every match replaced by the text
\* repl returned for it, replacements[i] for the match found[i].
RECURSIVE substituted(_, _, _, _, _)
substituted(s, found, replacements, i, from) ==
  IF i > Len(found) THEN Drop(s, from)
  ELSE SubStr(s, from + 1, found[i].start) \o replacements[i]
       \o substituted(s, found, replacements, i + 1, found[i].end)

-----------------------------------------------------------------------------
(* CitationFixer (src/src/toc_fixer/citation_fixer.py).  None is the empty *)
(* text: a chapter and a number found are never empty.                     *)

\* . of a pattern without re.DOTALL
Dot == Not({"\n"})

\* (ch\d+), case ignored, as group g
chapter_group(g) == Group(g, Text(<<"c","h">>) \o Atoms(<<Plus(Digit)>>))

\* (\d+)$ as group g
number_group(g) == Group(g, Atoms(<<Plus(Digit)>>)) \o <<End>>

\* <citation>([^<]+)</citation>
citation_pattern ==
  Text(<<"<","c","i","t","a","t","i","o","n",">">>) \o Group(1, Atoms(<<Plus(Not({"<"}))>>))
    \o Text(<<"<","/","c","i","t","a","t","i","o","n",">">>)

\* ^(ch\d+)-.*?-bib-(\d+)$
citation_id_pattern ==
  chapter_group(1) \o Text(<<"-">>) \o <<Lazy(Star(Dot))>> \o Text(<<"-","b","i","b","-">>)
    \o number_group(2)

\* ^(ch\d+).*?bib.*?(\d+)$, ^bib-?(\d+)$, ^ref-?(\d+)$ and ^(\d+)$
alt_patterns == <<
  [pattern |-> chapter_group(1) \o <<Lazy(Star(Dot))>> \o Text(<<"b","i","b">>)
                 \o <<Lazy(Star(Dot))>> \o number_group(2),
   groups  |-> 2],
  [pattern |-> Text(<<"b","i","b">>) \o Atoms(<<Opt({"-"})>>) \o number_group(1),
   groups  |-> 1],
  [pattern |-> Text(<<"r","e","f">>) \o Atoms(<<Opt({"-"})>>) \o number_group(1),
   groups  |-> 1],
  [pattern |-> number_group(1), groups |-> 1] >>

\* int(digits)
RECURSIVE int(_)
int(digits) ==
  IF digits = <<>> THEN 0
  ELSE 10 * int(SubStr(digits, 1, Len(digits) - 1))
       + (Ord(digits[Len(digits)]) - Ord("0"))

\* os.path.basename
basename(path) == Drop(path, RFind(path, "/"))

\* CitationFixer._extract_chapter_from_filename: the patterns ^(ch\d+),
\* ^(chapter\d+) and ^(c\d+) tried in turn on the base name.
RECURSIVE leading_chapter(_, _, _)
leading_chapter(words, i, name) ==
  IF i > Len(words) THEN <<>>
  ELSE LET m == re_match(Group(1, Text(words[i]) \o Atoms(<<Plus(Digit)>>)), 1, name)
       IN  IF m # <<>> THEN lower(group(name, m[1], 1))
           ELSE leading_chapter(words, i + 1, name)

extract_chapter_from_filename(filename) ==
  IF filename = <<>> THEN <<>>
  ELSE leading_chapter(<<<<"c","h">>, <<"c","h","a","p","t","e","r">>, <<"c">>>>, 1, basename(filename))

\* \s+id\s*=\s*["\']([^"\']+)["\'] with the id as group g; without the
\* leading \s+ when spaced is FALSE
id_attribute(g, spaced) ==
  (IF spaced THEN Atoms(<<Plus(Whitespace)>>) ELSE <<>>)
    \o Text(<<"i","d">>) \o Atoms(<<Star(Whitespace), One({"="}), Star(Whitespace),
                              One({"\"", "'"})>>)
    \o Group(g, Atoms(<<Plus(Not({"\"", "'"}))>>))
    \o Atoms(<<One({"\"", "'"})>>)

\* [^>]*>[\s\S]*?
rest_of_tag_and_text(most) ==
  Atoms(<<Star(Not({">"})), One({">"})>>) \o <<UpTo(Lazy(Star(Chars)), most)>>

\* \s*References\s*
references_title ==
  Atoms(<<Star(Whitespace)>>) \o Text(<<"R","e","f","e","r","e","n","c","e","s">>) \o Atoms(<<Star(Whitespace)>>)

\* The patterns of CitationFixer._find_references_section_id, in its order:
\* a sect1, sect2, ... with a References title, a section with one, a
\* bibliography element, a div with a References heading.
references_patterns == <<
  Text(<<"<","s","e","c","t">>) \o Atoms(<<One(Digit), Star(Not({">"}))>>) \o id_attribute(1, TRUE)
    \o rest_of_tag_and_text(-1) \o Text(<<"<","t","i","t","l","e">>) \o Atoms(<<Star(Not({">"})), One({">"})>>)
    \o references_title \o Text(<<"<","/","t","i","t","l","e",">">>),
  Text(<<"<","s","e","c","t","i","o","n">>) \o Atoms(<<Star(Not({">"}))>>) \o id_attribute(1, TRUE)
    \o rest_of_tag_and_text(-1) \o Text(<<"<","t","i","t","l","e">>) \o Atoms(<<Star(Not({">"})), One({">"})>>)
    \o references_title \o Text(<<"<","/","t","i","t","l","e",">">>),
  Text(<<"<","b","i","b","l","i","o","g","r","a","p","h","y">>) \o Atoms(<<Star(Not({">"}))>>) \o id_attribute(1, TRUE),
  Text(<<"<","d","i","v">>) \o Atoms(<<Star(Not({">"}))>>) \o id_attribute(1, TRUE)
    \o rest_of_tag_and_text(-1) \o Text(<<"<">>) \o Atoms(<<Star(Not({">"})), One({">"})>>)
    \o references_title \o Text(<<"<","/">>) >>

\* <(sect\d|section|div)[^>]*id\s*=\s*["\']([^"\']+)["\'][^>]*>[\s\S]{0,500}?References
\* as the list of its alternatives
references_heading_patterns ==
  LET rest == Atoms(<<Star(Not({">"}))>>) \o id_attribute(2, FALSE)
                \o rest_of_tag_and_text(500) \o Text(<<"R","e","f","e","r","e","n","c","e","s">>)
  IN  << Text(<<"<">>) \o Group(1, Text(<<"s","e","c","t">>) \o Atoms(<<One(Digit)>>)) \o rest,
         Text(<<"<">>) \o Group(1, Text(<<"s","e","c","t","i","o","n">>)) \o rest,
         Text(<<"<">>) \o Group(1, Text(<<"d","i","v">>)) \o rest >>

\* The patterns tried with the bibliography element first.
find_references_bibliography_first(content, i) ==
  LET order == <<3, 1, 2, 4>>
      RECURSIVE from(_)
      from(k) ==
        IF k > Len(order)
        THEN LET m == search_alternatives(references_heading_patterns, 1, 2, content, 0)
             IN  IF m # <<>> THEN group(content, m[1], 2) ELSE <<>>
        ELSE LET m == re_search(references_patterns[order[k]], 1, content)
             IN  IF m # <<>> THEN group(content, m[1], 1) ELSE from(k + 1)
  IN  from(i)

\* CitationFixer._find_references_section_id: the loop over the patterns,
\* then the search for a References heading after an element with an id.
RECURSIVE find_references_from(_, _)
find_references_from(content, i) ==
  IF i > Len(references_patterns)
  THEN LET m == search_alternatives(references_heading_patterns, 1, 2, content, 0)
       IN  IF m # <<>> THEN group(content, m[1], 2) ELSE <<>>
  ELSE LET m == re_search(references_patterns[i], 1, content)
       IN  IF m # <<>> THEN group(content, m[1], 1)
           ELSE find_references_from(content, i + 1)

find_references_section_id(content, chapter) == find_references_from(content, 1)

\* CitationFixer._parse_citation_id: nothing matched, any chapter reference
\* and any number at the end taken.
scrape_citation_id(citation_id, default_chapter) ==
  LET ch_match  == re_search(chapter_group(1), 1, citation_id)
      num_match == re_search(number_group(1), 1, citation_id)
  IN  [chapter |-> IF ch_match # <<>> THEN lower(group(citation_id, ch_match[1], 1))
                   ELSE default_chapter,
       bib_num |-> IF num_match # <<>> THEN group(citation_id, num_match[1], 1)
                   ELSE <<>>]

\* CitationFixer._parse_citation_id: the loop over the alternative patterns.
RECURSIVE parse_alternatives(_, _, _)
parse_alternatives(citation_id, default_chapter, i) ==
  IF i > Len(alt_patterns) THEN scrape_citation_id(citation_id, default_chapter)
  ELSE LET m == re_match(alt_patterns[i].pattern, alt_patterns[i].groups, citation_id)
       IN  IF m = <<>> THEN parse_alternatives(citation_id, default_chapter, i + 1)
           ELSE IF alt_patterns[i].groups = 2
           THEN [chapter |-> IF group(citation_id, m[1], 1) # <<>>
                             THEN lower(group(citation_id, m[1], 1))
                             ELSE default_chapter,
                 bib_num |-> group(citation_id, m[1], 2)]
           ELSE IF startswith(lower(group(citation_id, m[1], 1)), <<"c","h">>)
           THEN [chapter |-> lower(group(citation_id, m[1], 1)), bib_num |-> <<>>]
           ELSE [chapter |-> default_chapter, bib_num |-> group(citation_id, m[1], 1)]

\* CitationFixer._parse_citation_id
parse_citation_id(citation_id, default_chapter) ==
  LET m == re_match(citation_id_pattern, 2, citation_id)
  IN  IF m # <<>>
      THEN [chapter |-> lower(group(citation_id, m[1], 1)),
            bib_num |-> group(citation_id, m[1], 2)]
      ELSE parse_alternatives(citation_id, default_chapter, 1)

\* replace_citation: the link target inside the chapter
ref_target_of(citation_id, chapter, references_section_id) ==
  IF references_section_id # <<>> THEN references_section_id
  ELSE IF chapter # <<>> THEN chapter \o <<"s","0","0","9","0","0","0","-","5">> ELSE citation_id

\* replace_citation: the URL of the ulink
url_of(chapter, ref_target) ==
  IF chapter # <<>> THEN chapter \o <<"#">> \o ref_target ELSE <<"#">> \o ref_target

\* A variant of the number displayed that keeps the leading zeros.
display_num_verbatim(citation_id, bib_num) ==
  IF bib_num # <<>> THEN bib_num ELSE citation_id

\* replace_citation: the number displayed, leading zeros stripped
display_num_of(citation_id, bib_num) ==
  IF bib_num # <<>> /\ \A i \in DOMAIN bib_num : bib_num[i] \in Digit
  THEN IntToStr(int(bib_num))
  ELSE IF bib_num # <<>> THEN bib_num ELSE citation_id

\* replace_citation: the ulink and the record appended to changes, parsed
\* what _parse_citation_id returned.
citation_change(original, citation_id, parsed, references_section_id) ==
  [original    |-> original,
   replacement |-> <<"<","u","l","i","n","k"," ","u","r","l","=","\"">>
                     \o url_of(parsed.chapter,
                               ref_target_of(citation_id, parsed.chapter,
                                             references_section_id))
                     \o <<"\"",">">> \o display_num_of(citation_id, parsed.bib_num)
                     \o <<"<","/","u","l","i","n","k",">">>,
   citation_id |-> citation_id,
   ref_target  |-> ref_target_of(citation_id, parsed.chapter, references_section_id),
   chapter     |-> parsed.chapter,
   bib_num     |-> parsed.bib_num]

\* CitationFixer.fix_citations_in_content.replace_citation
replace_citation(content, match, default_chapter, references_section_id) ==
  citation_change(group(content, match, 0), strip(group(content, match, 1)),
                  parse_citation_id(strip(group(content, match, 1)), default_chapter),
                  references_section_id)

\* fix_citations_in_content: citation_pattern.sub(replace_citation, content)
citations_replaced(content, changes, found) ==
  [content |-> substituted(content, found,
                           [i \in DOMAIN changes |-> changes[i].replacement], 1, 0),
   changes |-> changes]

\* fix_citations_in_content: the changes, one for every match found
citations_changed(content, default_chapter, references_section_id, found) ==
  citations_replaced(content,
                     listed([i \in DOMAIN found |->
                             replace_citation(content, found[i], default_chapter,
                                              references_section_id)]),
                     found)

\* CitationFixer.fix_citations_in_content
fix_citations_in_content(content, filename) ==
  citations_changed(content, extract_chapter_from_filename(filename),
                    find_references_section_id(content,
                                               extract_chapter_from_filename(filename)),
                    finditer(<<citation_pattern>>, 1, content, 0))


-----------------------------------------------------------------------------
(* ReferenceFixer (src/src/toc_fixer/reference_fixer.py).  None is the     *)
(* empty text: a chapter found is never empty.                             *)

\* f"{n:04d}"
zero_padded(n) ==
  IF n < 10 THEN <<"0","0","0">> \o IntToStr(n)
  ELSE IF n < 100 THEN <<"0","0">> \o IntToStr(n)
  ELSE IF n < 1000 THEN <<"0">> \o IntToStr(n)
  ELSE IntToStr(n)

\* <bibliography[^>]*>.*?</bibliography> under re.DOTALL | re.IGNORECASE
bibliography_pattern ==
  Text(<<"<","b","i","b","l","i","o","g","r","a","p","h","y">>) \o Atoms(<<Star(Not({">"})), One({">"})>>)
    \o <<Lazy(Star(Chars))>> \o Text(<<"<","/","b","i","b","l","i","o","g","r","a","p","h","y",">">>)

\* <(bibliomixed|biblioentry)([^>]*)>(.*?)</\1> under re.DOTALL |
\* re.IGNORECASE, as the list of its alternatives; \1 is the tag again, in
\* any case.
bibentry(tag) ==
  Text(<<"<">>) \o Group(1, Text(tag)) \o Group(2, Atoms(<<Star(Not({">"}))>>))
    \o Atoms(<<One({">"})>>) \o Group(3, <<Lazy(Star(Chars))>>)
    \o Text(<<"<","/">>) \o Text(tag) \o Text(<<">">>)

bibentry_pattern == << bibentry(<<"b","i","b","l","i","o","m","i","x","e","d">>), bibentry(<<"b","i","b","l","i","o","e","n","t","r","y">>) >>

\* id\s*=\s*["\']([^"\']+)["\'] under re.IGNORECASE
id_pattern == id_attribute(1, FALSE)

\* _normalize_bib_id: the normalized id built
bib_id_of(id_chapter, num) ==
  IF id_chapter # <<>> THEN id_chapter \o <<"-","b","i","b">> \o zero_padded(num)
  ELSE <<"b","i","b">> \o zero_padded(num)

\* _normalize_bib_id: the number at the end of the id, else entry_num
bib_num_of(current_id, entry_num) ==
  LET num_match == re_search(number_group(1), 1, current_id)
  IN  IF num_match # <<>> THEN int(group(current_id, num_match[1], 1))
      ELSE entry_num

\* re.match(r'(ch\d+)', id, re.IGNORECASE), group 1 in lower case: the
\* chapter an id starts with, else the one given
chapter_of_id(id, chapter) ==
  LET ch_match == re_match(chapter_group(1), 1, id)
  IN  IF ch_match # <<>> THEN lower(group(id, ch_match[1], 1)) ELSE chapter

\* ReferenceFixer._normalize_bib_id
normalize_bib_id(current_id, chapter, entry_num) ==
  bib_id_of(chapter_of_id(current_id, chapter), bib_num_of(current_id, entry_num))

\* ReferenceFixer._extract_chapter_from_filename: (ch\d+) and chapter(\d+)
\* searched in the base name.
ReferenceFixer_extract_chapter_from_filename(filename) ==
  IF filename = <<>> THEN <<>>
  ELSE LET ch == re_search(chapter_group(1), 1, basename(filename))
           chapter == re_search(Text(<<"c","h","a","p","t","e","r">>) \o Group(1, Atoms(<<Plus(Digit)>>)),
                                1, basename(filename))
       IN  IF ch # <<>> THEN lower(group(basename(filename), ch[1], 1))
           ELSE IF chapter # <<>>
           THEN <<"c","h">> \o zero_padded(int(group(basename(filename), chapter[1], 1)))
           ELSE <<>>

\* f'<{tag}{new_attrs}>{content}</{tag}>'
entry_of(tag, new_attrs, content) ==
  <<"<">> \o tag \o new_attrs \o <<">">> \o content \o <<"<","/">> \o tag \o <<">">>

\* id_pattern.sub(f'id="{new_id}"', attrs)
id_substituted(attrs, new_id, found) ==
  substituted(attrs, found,
              [i \in DOMAIN found |-> <<"i","d","=","\"">> \o new_id \o <<"\"">>], 1, 0)

\* fix_entry of _fix_bibliography_section, the entry with an id: the text
\* it returns and what it appends to changes.
entry_renamed(tag, attrs, content, original, current_id, new_id, entry_counter) ==
  IF new_id # current_id
  THEN [replacement |-> entry_of(tag,
                                 id_substituted(attrs, new_id,
                                                finditer(<<id_pattern>>, 1, attrs, 0)),
                                 content),
        changes |-> << [type |-> "id_fix", original_id |-> current_id,
                        new_id |-> new_id, entry_num |-> entry_counter] >>]
  ELSE [replacement |-> original, changes |-> <<>>]

\* fix_entry of _fix_bibliography_section, the entry without an id
entry_named(tag, attrs, content, new_id, entry_counter) ==
  [replacement |-> entry_of(tag, <<" ","i","d","=","\"">> \o new_id \o <<"\"">> \o attrs, content),
   changes |-> << [type |-> "id_add", new_id |-> new_id,
                   entry_num |-> entry_counter] >>]

\* ReferenceFixer._fix_bibliography_section.fix_entry, id_match what
\* id_pattern.search(attrs) returned
entry_fixed(tag, attrs, content, original, id_match, chapter, entry_counter) ==
  IF id_match # <<>>
  THEN entry_renamed(tag, attrs, content, original, group(attrs, id_match[1], 1),
                     normalize_bib_id(group(attrs, id_match[1], 1), chapter,
                                      entry_counter),
                     entry_counter)
  ELSE entry_named(tag, attrs, content, bib_id_of(chapter, entry_counter),
                   entry_counter)

fix_entry(s, match, chapter, entry_counter) ==
  entry_fixed(group(s, match, 1), group(s, match, 2), group(s, match, 3),
              group(s, match, 0), re_search(id_pattern, 1, group(s, match, 2)),
              chapter, entry_counter)

\* _fix_bibliography_section: the chapter of the id of the bibliography
\* element when it starts with one, else the chapter given
section_chapter(bib_content, chapter) ==
  LET bib_id_match == re_search(Text(<<"<","b","i","b","l","i","o","g","r","a","p","h","y">>) \o Atoms(<<Star(Not({">"}))>>)
                                  \o id_pattern, 1, bib_content)
  IN  IF bib_id_match # <<>>
      THEN chapter_of_id(group(bib_content, bib_id_match[1], 1), chapter)
      ELSE chapter

\* bibentry_pattern.sub(fix_entry, bib_content), fixed what fix_entry
\* returned for every match
entries_replaced(s, found, fixed) ==
  [content |-> substituted(s, found, [i \in DOMAIN fixed |-> fixed[i].replacement], 1, 0),
   changes |-> Concat([i \in DOMAIN fixed |-> fixed[i].changes])]

\* ReferenceFixer._fix_bibliography_section; entry_counter starts at
\* first and grows by one with every entry, whatever fix_entry does to it.
section_fixed(bib_content, chapter, first, found) ==
  entries_replaced(bib_content, found,
                   listed([i \in DOMAIN found |->
                           fix_entry(bib_content, found[i], chapter, first + i - 1)]))

fix_bibliography_section(bib_content, chapter) ==
  section_fixed(bib_content, section_chapter(bib_content, chapter), 1,
                finditer(bibentry_pattern, 3, bib_content, 0))

\* ReferenceFixer._fix_standalone_entries.fix_entry
standalone_renamed(tag, attrs, content, original, current_id, new_id) ==
  IF new_id # current_id
  THEN entry_of(tag, id_substituted(attrs, new_id,
                                    finditer(<<id_pattern>>, 1, attrs, 0)),
                content)
  ELSE original

standalone_fixed(tag, attrs, content, original, id_match, chapter, entry_counter) ==
  IF id_match # <<>>
  THEN standalone_renamed(tag, attrs, content, original, group(attrs, id_match[1], 1),
                          normalize_bib_id(group(attrs, id_match[1], 1), chapter,
                                           entry_counter))
  ELSE original

fix_standalone_entry(s, match, chapter, entry_counter) ==
  standalone_fixed(group(s, match, 1), group(s, match, 2), group(s, match, 3),
                   group(s, match, 0), re_search(id_pattern, 1, group(s, match, 2)),
                   chapter, entry_counter)

\* ReferenceFixer._fix_standalone_entries: every entry of the content, the
\* ones inside a bibliography too; entry_counter starts at 1000.
standalone_replaced(content, chapter, found) ==
  substituted(content, found,
              [i \in DOMAIN found |->
                 fix_standalone_entry(content, found[i], chapter, 1000 + i - 1)],
              1, 0)

fix_standalone_entries(content, chapter) ==
  standalone_replaced(content, chapter, finditer(bibentry_pattern, 3, content, 0))

\* fix_references_in_content: bibliography_pattern.sub(fix_bibliography,
\* content), fixed what _fix_bibliography_section returned for every match
bibliographies_replaced(content, chapter, found, fixed) ==
  [content |-> fix_standalone_entries(
                 substituted(content, found,
                             [i \in DOMAIN fixed |-> fixed[i].content], 1, 0),
                 chapter),
   changes |-> Concat([i \in DOMAIN fixed |-> fixed[i].changes])]

bibliographies_fixed(content, chapter, found) ==
  bibliographies_replaced(content, chapter, found,
                          listed([i \in DOMAIN found |->
                                  fix_bibliography_section(group(content, found[i], 0),
                                                           chapter)]))

\* ReferenceFixer.fix_references_in_content
fix_references_in_content(content, filename) ==
  bibliographies_fixed(content, ReferenceFixer_extract_chapter_from_filename(filename),
                       finditer(<<bibliography_pattern>>, 0, content, 0))

-----------------------------------------------------------------------------
(* BibliographyFixer (src/src/toc_fixer/bibliography_fixer.py).  None is   *)
(* the empty text.                                                         *)

\* (<sect\d[^>]*>[\s\S]*?<title[^>]*>\s*References\s*</title>[\s\S]*?</sect\d>)
\* under re.IGNORECASE
ref_section_pattern ==
  Group(1, Text(<<"<","s","e","c","t">>) \o Atoms(<<One(Digit)>>) \o rest_of_tag_and_text(-1)
             \o Text(<<"<","t","i","t","l","e">>) \o Atoms(<<Star(Not({">"})), One({">"})>>)
             \o references_title \o Text(<<"<","/","t","i","t","l","e",">">>)
             \o <<Lazy(Star(Chars))>>
             \o Text(<<"<","/","s","e","c","t">>) \o Atoms(<<One(Digit), One({">"})>>))

\* <listitem([^>]*)>([\s\S]*?)</listitem> under re.IGNORECASE
listitem_pattern ==
  Text(<<"<","l","i","s","t","i","t","e","m">>) \o Group(1, Atoms(<<Star(Not({">"}))>>)) \o Atoms(<<One({">"})>>)
    \o Group(2, <<Lazy(Star(Chars))>>) \o Text(<<"<","/","l","i","s","t","i","t","e","m",">">>)

\* ^\s*<tag[^>]*>\s*\d+\s*</tag>\s* under re.IGNORECASE
leading_number_in(tag) ==
  Atoms(<<Star(Whitespace)>>) \o Text(<<"<">> \o tag)
    \o Atoms(<<Star(Not({">"})), One({">"}), Star(Whitespace), Plus(Digit),
               Star(Whitespace)>>)
    \o Text(<<"<","/">> \o tag \o <<">">>) \o Atoms(<<Star(Whitespace)>>)

\* re.sub(pattern, '', s) of a pattern that begins with ^: the match at
\* the start of s, if there is one, removed.
leading_removed(pat, s) ==
  LET m == re_match(pat, 0, s)
  IN  IF m # <<>> THEN Drop(s, m[1].end) ELSE s

\* BibliographyFixer._clean_entry_content
inner_cleaned(inner_content) ==
  strip(leading_removed(Atoms(<<Star(Whitespace), Plus(Digit), Opt({"."}),
                                Plus(Whitespace)>>),
          leading_removed(leading_number_in(<<"s","t","r","o","n","g">>),
            leading_removed(leading_number_in(<<"e","m","p","h","a","s","i","s">>), inner_content))))

clean_entry_content(content) ==
  LET para_match ==
        re_match(Atoms(<<Star(Whitespace)>>) \o Text(<<"<","p","a","r","a">>)
                   \o Atoms(<<Star(Not({">"})), One({">"})>>)
                   \o Group(1, Atoms(<<Star(Chars)>>)) \o Text(<<"<","/","p","a","r","a",">">>)
                   \o Atoms(<<Star(Whitespace)>>) \o <<End>>,
                 1, content)
  IN  inner_cleaned(IF para_match # <<>> THEN group(content, para_match[1], 1)
                    ELSE content)

\* name\s*=\s*["\']([^"\']+)["\'] searched in the attributes of a tag; the
\* empty text when there is none
attribute_named(name, attrs) ==
  LET m == re_search(Text(name) \o Atoms(<<Star(Whitespace), One({"="}),
                                           Star(Whitespace), One({"\"", "'"})>>)
                       \o Group(1, Atoms(<<Plus(Not({"\"", "'"}))>>))
                       \o Atoms(<<One({"\"", "'"})>>),
                     1, attrs)
  IN  IF m # <<>> THEN group(attrs, m[1], 1) ELSE <<>>

\* BibliographyFixer._extract_list_entries
list_entry(s, match) ==
  [id |-> attribute_named(<<"i","d">>, group(s, match, 1)),
   role |-> attribute_named(<<"r","o","l","e">>, group(s, match, 1)),
   content |-> clean_entry_content(group(s, match, 2)),
   original_content |-> group(s, match, 2)]

entries_listed(section_content, found) ==
  listed([i \in DOMAIN found |-> list_entry(section_content, found[i])])

extract_list_entries(section_content) ==
  entries_listed(section_content, finditer(<<listitem_pattern>>, 2, section_content, 0))

\* re.match(r'(ch\d+)', id, re.IGNORECASE): the chapter code, in lower
\* case, an id begins with; the empty text when it begins with none
leading_chapter_code(id) ==
  LET ch_match == re_match(chapter_group(1), 1, id)
  IN  IF ch_match # <<>> THEN lower(group(id, ch_match[1], 1)) ELSE <<>>

\* BibliographyFixer._build_bibliography
bibliography_id(chapter, original_section_id) ==
  IF chapter # <<>> THEN chapter
  ELSE IF original_section_id # <<>>
  THEN IF leading_chapter_code(original_section_id) # <<>>
       THEN leading_chapter_code(original_section_id)
       ELSE original_section_id
  ELSE <<"r","e","f","e","r","e","n","c","e","s">>

bibliomixed_line(entry) ==
  IF entry.id # <<>>
  THEN <<" "," "," "," ","<","b","i","b","l","i","o","m","i","x","e","d"," ","i","d","=","\"">> \o entry.id \o <<"\"",">">> \o entry.content \o <<"<","/","b","i","b","l","i","o","m","i","x","e","d",">">>
  ELSE <<" "," "," "," ","<","b","i","b","l","i","o","m","i","x","e","d",">">> \o entry.content \o <<"<","/","b","i","b","l","i","o","m","i","x","e","d",">">>

RECURSIVE join_lines(_)
join_lines(lines) ==
  IF lines = <<>> THEN <<>>
  ELSE IF Len(lines) = 1 THEN lines[1]
  ELSE lines[1] \o <<"\n">> \o join_lines(Tail(lines))

build_bibliography(entries, chapter, original_section_id) ==
  join_lines(<< <<"<","b","i","b","l","i","o","g","r","a","p","h","y"," ","i","d","=","\"">> \o bibliography_id(chapter, original_section_id) \o <<"\"",">">>,
                <<" "," ","<","t","i","t","l","e",">","R","e","f","e","r","e","n","c","e","s","<","/","t","i","t","l","e",">">>,
                <<" "," ","<","b","i","b","l","i","o","d","i","v",">">>,
                <<" "," "," "," ","<","t","i","t","l","e",">","P","r","i","m","a","r","y"," ","S","o","u","r","c","e","s","<","/","t","i","t","l","e",">">> >>
             \o [i \in DOMAIN entries |-> bibliomixed_line(entries[i])]
             \o << <<" "," ","<","/","b","i","b","l","i","o","d","i","v",">">>, <<"<","/","b","i","b","l","i","o","g","r","a","p","h","y",">">> >>)

\* BibliographyFixer._fix_reference_section
section_converted(section_content, chapter, section_id, entries) ==
  IF entries = <<>> THEN [content |-> section_content, changes |-> <<>>]
  ELSE [content |-> build_bibliography(
                      entries,
                      IF chapter = <<>> /\ section_id # <<>>
                           /\ leading_chapter_code(section_id) # <<>>
                      THEN leading_chapter_code(section_id) ELSE chapter,
                      section_id),
        changes |-> << [type |-> "structure_conversion",
                        original_section_id |-> section_id,
                        entries_converted |-> Len(entries)] >>]

section_id_of(section_content) ==
  LET m == re_search(Text(<<"<","s","e","c","t">>) \o Atoms(<<One(Digit), Star(Not({">"}))>>)
                       \o id_attribute(1, FALSE),
                     1, section_content)
  IN  IF m # <<>> THEN group(section_content, m[1], 1) ELSE <<>>

fix_reference_section(section_content, chapter) ==
  IF ~contains(lower(section_content), <<"<","o","r","d","e","r","e","d","l","i","s","t">>)
  THEN [content |-> section_content, changes |-> <<>>]
  ELSE section_converted(section_content, chapter, section_id_of(section_content),
                         extract_list_entries(section_content))

\* BibliographyFixer._extract_chapter_from_filename
BibliographyFixer_extract_chapter_from_filename(filename) ==
  IF filename = <<>> THEN <<>>
  ELSE LET match == re_search(chapter_group(1), 1, basename(filename))
       IN  IF match # <<>> THEN lower(group(basename(filename), match[1], 1))
           ELSE <<>>

\* BibliographyFixer.fix_bibliography_structure:
\* ref_section_pattern.sub(fix_section, content), fixed what
\* _fix_reference_section returned for every match
sections_replaced(content, found, fixed) ==
  [content |-> substituted(content, found,
                           [i \in DOMAIN fixed |-> fixed[i].content], 1, 0),
   changes |-> Concat([i \in DOMAIN fixed |-> fixed[i].changes])]

sections_fixed(content, chapter, found) ==
  sections_replaced(content, found,
                    listed([i \in DOMAIN found |->
                            fix_reference_section(group(content, found[i], 1), chapter)]))

fix_bibliography_structure(content, filename) ==
  sections_fixed(content, BibliographyFixer_extract_chapter_from_filename(filename),
                 finditer(<<ref_section_pattern>>, 1, content, 0))

\* create_id_mapping: the number an id ends with, leading zeros stripped
\* (group(1).lstrip('0') or '0'); empty when it ends with none
stripped_number(id) ==
  LET num_match == re_search(number_group(1), 1, id)
  IN  IF num_match = <<>> THEN <<>>
      ELSE IF lstrip(group(id, num_match[1], 1), {"0"}) = <<>> THEN <<"0">>
      ELSE lstrip(group(id, num_match[1], 1), {"0"})

\* A variant of the match of a reference and a bibliography id that looks
\* at the numbers only.
same_number(ref, bib_id) ==
  /\ stripped_number(ref) # <<>>
  /\ stripped_number(bib_id) = stripped_number(ref)

\* create_id_mapping: the reference and the bibliography id end with the
\* same number and begin with the same chapter
same_number_and_chapter(ref, bib_id) ==
  /\ stripped_number(ref) # <<>>
  /\ stripped_number(bib_id) = stripped_number(ref)
  /\ chapter_of_id(ref, <<>>) # <<>>
  /\ chapter_of_id(bib_id, <<>>) = chapter_of_id(ref, <<>>)

\* The orders in which the loop 'for bib_id in bib_ids' can go through
\* the set: a set has no order of its own.
Orders(set) ==
  { order \in [1..Cardinality(set) -> set] : \A member \in set : \E i \in DOMAIN order : order[i] = member }

\* create_id_mapping: the loop over bib_ids from the i-th id on: the
\* sequence holding the first id that matches, empty when none does
RECURSIVE first_matching(_, _, _)
first_matching(ref, order, i) ==
  IF i > Len(order) THEN <<>>
  ELSE IF same_number_and_chapter(ref, order[i]) THEN <<order[i]>>
  ELSE first_matching(ref, order, i + 1)

\* create_id_mapping: the body of the loop over citation_refs: the sequence
\* holding the id mapping[ref] is set to, empty when it is not set
mapped_id(ref, bib_ids, order) ==
  IF normalize_bib_id(ref, <<>>, 0) \in bib_ids THEN << normalize_bib_id(ref, <<>>, 0) >>
  ELSE IF ref \in bib_ids THEN <<ref>>
  ELSE first_matching(ref, order, 1)

\* create_id_mapping with bib_ids gone through in a given order
mapping_in(citation_refs, bib_ids, order) ==
  [ref \in { r \in citation_refs : mapped_id(r, bib_ids, order) # <<>> } |->
     mapped_id(ref, bib_ids, order)[1]]

\* ReferenceFixer.create_id_mapping: the mappings it can return
create_id_mapping(citation_refs, bib_ids) ==
  { mapping_in(citation_refs, bib_ids, order) : order \in Orders(bib_ids) }

\* ReferenceFixer.collect_bib_ids
collect_bib_ids(content) ==
  LET found == finditer(bibentry_pattern, 3, content, 0)
  IN  { group(group(content, found[i], 2),
              re_search(id_pattern, 1, group(content, found[i], 2))[1], 1) :
          i \in { j \in DOMAIN found :
                    re_search(id_pattern, 1, group(content, found[j], 2)) # <<>> } }


-----------------------------------------------------------------------------
(* BookFixer (src/src/toc_fixer/book_fixer.py).  The files of the walk are *)
(* records: the name, whether open() for reading and for writing succeeds, *)
(* the text, and for a TOC file whether TOCFixer parses it; the TOC is not *)
(* held, so what TOCFixer.fix writes back is the flag 'fixed'.  str(e) of  *)
(* an exception is a text that names what raised.                          *)

TOC_PATTERNS == <<
  Text(<<"t","o","c",".">>) \o Atoms(<<Star(Dot)>>) \o Text(<<".","x","m","l">>) \o <<End>>,
  Text(<<"t","o","c",".","x","m","l">>) \o <<End>>,
  Text(<<"t","o","c",".","n","c","x">>) \o <<End>>,
  Text(<<"n","a","v",".","x","h","t","m","l">>) \o <<End>>,
  Text(<<"n","a","v","i","g","a","t","i","o","n",".","x","m","l">>) \o <<End>> >>

CONTENT_PATTERNS == <<
  Text(<<"c","h">>) \o Atoms(<<Plus(Digit), Star(Dot)>>) \o Text(<<".","x","m","l">>) \o <<End>>,
  Text(<<"c","h","a","p","t","e","r">>) \o Atoms(<<Plus(Digit), Star(Dot)>>) \o Text(<<".","x","m","l">>) \o <<End>>,
  Text(<<"p","a","r","t">>) \o Atoms(<<Plus(Digit), Star(Dot)>>) \o Text(<<".","x","m","l">>) \o <<End>>,
  Atoms(<<Star(Dot)>>) \o Text(<<".","x","h","t","m","l">>) \o <<End>>,
  Atoms(<<Star(Dot)>>) \o Text(<<"c","o","n","t","e","n","t">>) \o Atoms(<<Star(Dot)>>) \o Text(<<".","x","m","l">>) \o <<End>> >>

SKIP_PATTERNS == <<
  Text(<<"_","_","M","A","C","O","S","X">>), Text(<<".","D","S","_","S","t","o","r","e">>), Text(<<"T","h","u","m","b","s",".","d","b">>), Text(<<".","g","i","t">>) >>

\* for pattern in patterns: if pattern.search(name): return True
any_search(patterns, name) ==
  \E i \in DOMAIN patterns : re_search(patterns[i], 0, name) # <<>>

\* BookFixer._should_skip, _is_toc_file and _is_content_file
should_skip(name) == any_search(SKIP_PATTERNS, name)
is_toc_file(filename) == any_search(TOC_PATTERNS, filename)
is_content_file(filename) == any_search(CONTENT_PATTERNS, filename)

\* The report of process_directory before the walk.
new_report ==
  [toc_files |-> <<>>, content_files |-> <<>>, reference_files |-> <<>>,
   errors |-> <<>>, total_citations_fixed |-> 0, total_references_fixed |-> 0]

\* A call that returned and one that raised the exception e, b the book as
\* the call leaves it.
returned(b) == [book |-> b, raised |-> FALSE, e |-> <<>>]
raised(b, e) == [book |-> b, raised |-> TRUE, e |-> e]

\* A variant of the handlers that lets the exception go on.
raise_again(b, message, e) == raised(b, e)

\* except Exception as e: report['errors'].append(f"{message}{str(e)}")
except_Exception(b, message, e) ==
  returned([b EXCEPT !.report.errors = Append(@, message \o e)])

\* os.path.relpath(file_path, directory) and file_path of file i of the
\* walk: every file lies in a directory of its own, named by its number.
rel_path(b, i) == IntToStr(i) \o <<"/">> \o b.files[i].name
book_file_path(b, i) == <<"/","b","o","o","k","/">> \o rel_path(b, i)

\* BookFixer._process_toc_file
process_toc_file(b, i) ==
  IF ~b.files[i].readable
  THEN except_Exception(b, <<"T","O","C"," ","e","r","r","o","r"," ","i","n"," ">> \o rel_path(b, i) \o <<":"," ">>,
                        <<"P","e","r","m","i","s","s","i","o","n"," ","d","e","n","i","e","d">>)
  ELSE IF ~b.files[i].parses
  THEN except_Exception(b, <<"T","O","C"," ","e","r","r","o","r"," ","i","n"," ">> \o rel_path(b, i) \o <<":"," ">>,
                        <<"n","o","t"," ","w","e","l","l","-","f","o","r","m","e","d">>)
  ELSE IF ~b.files[i].writable
  THEN except_Exception(b, <<"T","O","C"," ","e","r","r","o","r"," ","i","n"," ">> \o rel_path(b, i) \o <<":"," ">>,
                        <<"P","e","r","m","i","s","s","i","o","n"," ","d","e","n","i","e","d">>)
  ELSE returned([b EXCEPT !.files[i].fixed = TRUE,
                          !.report.toc_files = Append(@, [file |-> rel_path(b, i)])])

\* _process_content_file: the citations fixed, changes what
\* fix_citations_in_content returned, or no change of it when the content
\* holds no <citation>
citations_of(b, content, path) ==
  IF b.fix_citations /\ contains(lower(content), <<"<","c","i","t","a","t","i","o","n",">">>)
  THEN fix_citations_in_content(content, path)
  ELSE [content |-> content, changes |-> <<>>]

\* _process_content_file: the same for the bibliography entries
references_of(b, content, path) ==
  IF b.fix_references /\ (contains(lower(content), <<"<","b","i","b","l","i","o","m","i","x","e","d">>)
                          \/ contains(lower(content), <<"<","b","i","b","l","i","o","e","n","t","r","y">>))
  THEN fix_references_in_content(content, path)
  ELSE [content |-> content, changes |-> <<>>]

\* _process_content_file: the entry of report['reference_files']
references_reported(b, i, ref_changes) ==
  IF ref_changes = <<>> THEN b
  ELSE [b EXCEPT !.report.reference_files =
                     Append(@, [file |-> rel_path(b, i),
                                references_fixed |-> Len(ref_changes)]),
                 !.report.total_references_fixed = @ + Len(ref_changes)]

\* _process_content_file: the content written back and the entry of
\* report['content_files']
content_written(b, i, content, changes) ==
  IF changes = <<>> THEN [b EXCEPT !.files[i].content = content]
  ELSE [b EXCEPT !.files[i].content = content,
                 !.report.content_files =
                     Append(@, [file |-> rel_path(b, i),
                                citations_fixed |-> Len(changes)]),
                 !.report.total_citations_fixed = @ + Len(changes)]

\* _process_content_file once the file is read: cited and fixed what the
\* two fixers returned, b the book with the references reported.
content_fixed(b, i, cited, fixed) ==
  IF cited.changes = <<>> /\ fixed.changes = <<>> THEN returned(b)
  ELSE IF ~b.files[i].writable
  THEN except_Exception(b, <<"C","o","n","t","e","n","t"," ","e","r","r","o","r"," ","i","n"," ">> \o rel_path(b, i) \o <<":"," ">>,
                        <<"P","e","r","m","i","s","s","i","o","n"," ","d","e","n","i","e","d">>)
  ELSE returned(content_written(b, i, fixed.content, cited.changes))

content_cited(b, i, cited, fixed) ==
  content_fixed(references_reported(b, i, fixed.changes), i, cited, fixed)

content_read(b, i, cited) ==
  content_cited(b, i, cited, references_of(b, cited.content, book_file_path(b, i)))

\* BookFixer._process_content_file
process_content_file(b, i) ==
  IF ~b.files[i].readable
  THEN except_Exception(b, <<"C","o","n","t","e","n","t"," ","e","r","r","o","r"," ","i","n"," ">> \o rel_path(b, i) \o <<":"," ">>,
                        <<"P","e","r","m","i","s","s","i","o","n"," ","d","e","n","i","e","d">>)
  ELSE content_read(b, i, citations_of(b, b.files[i].content, book_file_path(b, i)))

\* _process_directory: the try block of the loop
process_by_kind(b, i) ==
  IF b.fix_toc /\ is_toc_file(b.files[i].name) THEN process_toc_file(b, i)
  ELSE IF b.fix_citations /\ is_content_file(b.files[i].name)
  THEN process_content_file(b, i)
  ELSE IF b.fix_citations /\ Len(b.files[i].name) >= 4
          /\ Drop(b.files[i].name, Len(b.files[i].name) - 4) = <<".","x","m","l">>
  THEN process_content_file(b, i)
  ELSE returned(b)

\* _process_directory: the try block with its handler
process_tried(b, i, done) ==
  IF done.raised
  THEN except_Exception(done.book, <<"E","r","r","o","r"," ","p","r","o","c","e","s","s","i","n","g"," ">> \o rel_path(b, i) \o <<":"," ">>,
                        done.e)
  ELSE done

\* _process_directory: the body of the loop for file i of the walk
process_file(b, i) ==
  IF should_skip(b.files[i].name) THEN returned(b)
  ELSE process_tried(b, i, process_by_kind(b, i))


\* No content document in hand, no ids to match, no book being processed.
NoDocument == [content |-> <<>>, filename |-> <<>>]
NoIds == [citation_refs |-> {}, bib_ids |-> {}]
NoBook ==
  [files |-> <<>>, next |-> 1, report |-> new_report, status |-> "idle",
   fix_toc |-> TRUE, fix_citations |-> TRUE, fix_references |-> TRUE]

-----------------------------------------------------------------------------
(* The trees a parser hands over: up to n items, the title and the href of *)
(* each from a given set of pairs, ids in document order, level the depth  *)
(* of the item (NCXParser._parse_nav_point, NavParser._parse_list_item).   *)

RECURSIVE Forests(_, _)
Forests(n, labels) ==
  IF n = 0 THEN { <<>> }
  ELSE UNION { { <<[label |-> l, children |-> c]>> \o r :
                   l \in labels, c \in Forests(k - 1, labels),
                   r \in Forests(n - k, labels) } : k \in 1..n }

RECURSIVE Size(_)
Size(items) ==
  IF items = <<>> THEN 0
  ELSE 1 + Size(Head(items).children) + Size(Tail(items))

RECURSIVE Parsed(_, _, _)
Parsed(forest, next, depth) ==
  IF forest = <<>> THEN <<>>
  ELSE LET t == Head(forest)
       IN  <<[id |-> next, title |-> t.label.title, href |-> t.label.href,
              level |-> depth,
              children |-> Parsed(t.children, next + 1, depth + 1)]>>
           \o Parsed(Tail(forest), next + 1 + Size(t.children), depth)

ParsedTrees(labels, n) ==
  { Parsed(f, 1, 0) : f \in UNION { Forests(k, labels) : k \in 0..n } }

\* Items that differ in their titles only.
Titled(titles) == { [title |-> t, href |-> <<"c", ".", "x">>] : t \in titles }

-----------------------------------------------------------------------------
(* Hierarchy reconstruction: a parsed TOC, repaired any number of times.    *)

NestTitles == {
  <<"A","p","p","e","n","d","i","x"," ","1">>,
  <<"I","n","d","e","x">>,
  <<"C","h","a","p","t","e","r"," ","1">>,
  <<"1",".","1"," ","S">>,
  <<"1",".","1",".","1"," ","x">>,
  <<"F","o","o">> }

InitNesting ==
  /\ toc \in ParsedTrees(Titled(NestTitles), MaxItems)
  /\ prev = <<>>
  /\ op = "parse"
  /\ out = <<>>
  /\ fixer = LinkFixer(<<>>)
  /\ fs = NoFiles
  /\ heap = NoObjects
  /\ doc = NoDocument
  /\ ids = NoIds
  /\ book = NoBook

FixNesting ==
  /\ toc' = fix_nesting(toc)
  /\ prev' = toc
  /\ op' = "fix_nesting"
  /\ out' = <<>>
  /\ UNCHANGED <<fixer, fs, heap, doc, ids, book>>

NextNesting == FixNesting

SpecNesting == InitNesting /\ [][NextNesting]_vars

-----------------------------------------------------------------------------
(* Renumbering: a parsed TOC with numbered and unnumbered titles,           *)
(* renumbered any number of times.                                          *)

NumberedTitles == {
  <<"3"," ","B">>,
  <<"1",".","2",".">>,
  <<"2",".","5"," ","C">>,
  <<"4",".",".","x">>,
  <<"1"," ",".">>,
  <<"7">>,
  <<"F","o","o">> }

InitNumbering ==
  /\ toc \in ParsedTrees(Titled(NumberedTitles), MaxItems)
  /\ prev = <<>>
  /\ op = "parse"
  /\ out = <<>>
  /\ fixer = LinkFixer(<<>>)
  /\ fs = NoFiles
  /\ heap = NoObjects
  /\ doc = NoDocument
  /\ ids = NoIds
  /\ book = NoBook

FixNumbering ==
  /\ toc' = fix_numbering_sequence(toc)
  /\ prev' = toc
  /\ op' = "fix_numbering_sequence"
  /\ out' = <<>>
  /\ UNCHANGED <<fixer, fs, heap, doc, ids, book>>

NextNumbering == FixNumbering

SpecNumbering == InitNumbering /\ [][NextNumbering]_vars

-----------------------------------------------------------------------------
(* Duplicate merging: a parsed TOC in which items share title and href,     *)
(* merged any number of times.                                              *)

MaxMergeItems == 4

MergeLabels == {
  [title |-> <<"A">>, href |-> <<"a", ".", "x">>],
  [title |-> <<"A">>, href |-> <<"b", ".", "x">>],
  [title |-> <<"B">>, href |-> <<"a", ".", "x">>] }

InitMerge ==
  /\ toc \in ParsedTrees(MergeLabels, MaxMergeItems)
  /\ prev = <<>>
  /\ op = "parse"
  /\ out = <<>>
  /\ fixer = LinkFixer(<<>>)
  /\ fs = NoFiles
  /\ heap = NoObjects
  /\ doc = NoDocument
  /\ ids = NoIds
  /\ book = NoBook

MergeDuplicates ==
  /\ toc' = merge_duplicate_entries(toc)
  /\ prev' = toc
  /\ op' = "merge_duplicate_entries"
  /\ out' = <<>>
  /\ UNCHANGED <<fixer, fs, heap, doc, ids, book>>

NextMerge == MergeDuplicates

SpecMerge == InitMerge /\ [][NextMerge]_vars

-----------------------------------------------------------------------------
(* Link repair: a parsed TOC whose items point outside the book, at files  *)
(* of the content root, at nothing, fixed and analysed any number of times *)
(* by one LinkFixer, with and without a content root.                      *)

MaxLinkItems == 2

CONTENT_ROOT == <<"/", "r">>

\* The content root with the file a.x, which holds the anchor f.
ContentFiles ==
  (<<>> :> Directory(<< <<"r">> >>))
  @@ (<< <<"r">> >> :> Directory(<< <<"a",".","x">> >>))
  @@ (<< <<"r">>, <<"a",".","x">> >> :>
        File(<<"<","p"," ","i","d","=","\"","f","\"",">">>, TRUE))

\* The content root, empty.
EmptyContent ==
  (<<>> :> Directory(<< <<"r">> >>)) @@ (<< <<"r">> >> :> Directory(<<>>))

LinkHrefs == {
  <<"h","t","t","p",":","/","/","h","/","a"," ","b">>,
  <<"H","T","T","P","S",":","/","/","h","#","1">>,
  <<"h","t","t","p",":","/","/","[","x">>,
  <<"m","a","i","l","t","o",":","m","%">>,
  <<"f","t","p",":","/","/","h","/","A",".","X">>,
  <<"a"," ","b",".","x">>,
  <<"A",".","X","#","1">>,
  <<"a",".","x","#","f">>,
  <<>> }

Linked(hrefs) == { [title |-> <<"T">>, href |-> h] : h \in hrefs }

InitLinks ==
  /\ toc \in ParsedTrees(Linked(LinkHrefs), MaxLinkItems)
  /\ prev = <<>>
  /\ op = "parse"
  /\ out = [raised |-> FALSE, issues |-> <<>>]
  /\ fixer \in { LinkFixer(<<>>), LinkFixer(CONTENT_ROOT) }
  /\ fs \in { ContentFiles, EmptyContent }
  /\ heap = NoObjects
  /\ doc = NoDocument
  /\ ids = NoIds
  /\ book = NoBook

\* toc = link_fixer.fix_links(toc); a ValueError leaves toc as it was.
FixLinks ==
  LET r == fix_links(fixer, fs, toc)
  IN  /\ toc' = IF r.raised THEN toc ELSE r.value
      /\ prev' = toc
      /\ op' = "fix_links"
      /\ out' = [raised |-> r.raised, issues |-> <<>>]
      /\ fixer' = r.fixer
      /\ UNCHANGED <<fs, heap, doc, ids, book>>

\* link_fixer.analyze_issues(toc)
AnalyzeLinks ==
  LET r == link_issues(fixer, fs, toc)
  IN  /\ prev' = toc
      /\ op' = "LinkFixer.analyze_issues"
      /\ out' = [raised |-> r.raised, issues |-> r.value]
      /\ fixer' = r.fixer
      /\ UNCHANGED <<toc, fs, heap, doc, ids, book>>

NextLinks == FixLinks \/ AnalyzeLinks

SpecLinks == InitLinks /\ [][NextLinks]_vars

-----------------------------------------------------------------------------
(* Link encoding: a TOC of one item whose target is any text over a few    *)
(* characters, fixed and analysed with no content root.                    *)

MaxHrefLen == 4

EncodingAlphabet == {"x", " ", "%", "2", "5", "#", "~", "&"}

Texts(alphabet, n) == UNION { [1..k -> alphabet] : k \in 0..n }

InitEncoding ==
  /\ toc \in ParsedTrees(Linked(Texts(EncodingAlphabet, MaxHrefLen)), 1)
  /\ prev = <<>>
  /\ op = "parse"
  /\ out = [raised |-> FALSE, issues |-> <<>>]
  /\ fixer = LinkFixer(<<>>)
  /\ fs = NoFiles
  /\ heap = NoObjects
  /\ doc = NoDocument
  /\ ids = NoIds
  /\ book = NoBook

SpecEncoding == InitEncoding /\ [][NextLinks]_vars

-----------------------------------------------------------------------------
(* Analysis: a parsed TOC, held as objects, analysed any number of times   *)
(* by the NestingFixer and by a LinkFixer.                                 *)

MaxAnalysisItems == 3

AnalysisLabels == {
  [title |-> <<"C","h","a","p","t","e","r"," ","1">>, href |-> <<"a"," ","b",".","x">>],
  [title |-> <<"1",".","1",".","1"," ","x">>,         href |-> <<"a",".","x","#","f">>],
  [title |-> <<"F","o","o">>,                         href |-> <<>>],
  [title |-> <<"I","n","d","e","x">>,
   href  |-> <<"h","t","t","p",":","/","/","h","/","a"," ","b">>] }

InitAnalysis ==
  /\ toc \in ParsedTrees(AnalysisLabels, MaxAnalysisItems)
  /\ prev = <<>>
  /\ op = "parse"
  /\ out = [raised |-> FALSE, issues |-> <<>>]
  /\ fixer \in { LinkFixer(<<>>), LinkFixer(CONTENT_ROOT) }
  /\ fs = ContentFiles
  /\ heap = Objects(toc)
  /\ doc = NoDocument
  /\ ids = NoIds
  /\ book = NoBook

\* nesting_fixer.analyze_issues(toc), toc read through its references
\* before and after the call.
AnalyzeNesting ==
  LET r == analyze_issues(heap)
  IN  /\ heap' = collect(r.heap, heap)
      /\ toc' = tree_at(heap', heap'.items)
      /\ prev' = toc
      /\ op' = "NestingFixer.analyze_issues"
      /\ out' = [raised |-> FALSE, issues |-> r.value]
      /\ UNCHANGED <<fixer, fs, doc, ids, book>>

NextAnalysis == AnalyzeNesting \/ AnalyzeLinks

SpecAnalysis == InitAnalysis /\ [][NextAnalysis]_vars

-----------------------------------------------------------------------------
(* Citations: a content document whose citation tags are converted, any    *)
(* number of times.  A document is a run of blocks: text, citation tags    *)
(* whose ids name the chapter of the file, another chapter or none, one    *)
(* with text after it, and the start of a References section.              *)

MaxBlocks == 2

\* The documents of at most n of the blocks.
RECURSIVE Documents(_, _)
Documents(blocks, n) ==
  IF n = 0 THEN { <<>> }
  ELSE Documents(blocks, n - 1)
       \cup { d \o b : d \in Documents(blocks, n - 1), b \in blocks }

CitationBlocks == {
  <<" ","a"," ">>,
  <<"<","c","i","t","a","t","i","o","n",">","c","h","0","0","1","1","-","c","1","-","b","i","b","-","0","0","0","7","<","/","c","i","t","a","t","i","o","n",">">>,
  <<"<","C","i","t","a","t","i","o","n",">","C","H","1","2","-","x","-","b","i","b","-","0","1","0","<","/","c","i","t","a","t","i","o","n",">">>,
  <<"<","c","i","t","a","t","i","o","n",">","b","i","b","3","<","/","c","i","t","a","t","i","o","n",">","."," ">>,
  <<"<","c","i","t","a","t","i","o","n",">"," ","x"," ","<","/","c","i","t","a","t","i","o","n",">">>,
  <<"<","s","e","c","t","1"," ","i","d","=","\"","c","h","0","0","1","1","s","9","\"",">","<","t","i","t","l","e",">","R","e","f","e","r","e","n","c","e","s","<","/","t","i","t","l","e",">">>,
  <<"<","b","i","b","l","i","o","g","r","a","p","h","y"," ","i","d","=","\"","b","\"",">">> }

Filenames == { <<>>, <<"c","h","0","0","1","1",".","x","m","l">>, <<"/","b","/","n","o","t","e","s",".","x","m","l">> }

InitCitations ==
  /\ toc = <<>>
  /\ prev = NoDocument
  /\ op = "read"
  /\ out = [raised |-> FALSE, changes |-> <<>>]
  /\ fixer = LinkFixer(<<>>)
  /\ fs = NoFiles
  /\ heap = NoObjects
  /\ doc \in { [content |-> d, filename |-> f] :
                 d \in Documents(CitationBlocks, MaxBlocks), f \in Filenames }
  /\ ids = NoIds
  /\ book = NoBook

\* content, changes = citation_fixer.fix_citations_in_content(content, filename)
FixCitations ==
  LET r == fix_citations_in_content(doc.content, doc.filename)
  IN  /\ doc' = [doc EXCEPT !.content = r.content]
      /\ prev' = doc
      /\ op' = "fix_citations_in_content"
      /\ out' = [raised |-> FALSE, changes |-> r.changes]
      /\ UNCHANGED <<toc, fixer, fs, heap, ids, book>>

NextCitations == FixCitations

SpecCitations == InitCitations /\ [][NextCitations]_vars

-----------------------------------------------------------------------------
(* References: a content document whose bibliography entries are given     *)
(* their ids, any number of times.  A document is a bibliography of up to  *)
(* MaxEntries entries, with or without an id that names a chapter, after   *)
(* nothing, another bibliography or an entry outside any, and before       *)
(* nothing or an entry outside any.                                        *)

MaxEntries == 3

BibliographyEntries == {
  <<"<","b","i","b","l","i","o","m","i","x","e","d",">","A","<","/","b","i","b","l","i","o","m","i","x","e","d",">">>,
  <<"<","b","i","b","l","i","o","e","n","t","r","y"," ","i","d","=","\"","r","e","f","5","\"",">","B","<","/","b","i","b","l","i","o","e","n","t","r","y",">">>,
  <<"<","b","i","b","l","i","o","m","i","x","e","d"," ","i","d","=","\"","c","h","0","0","1","1","-","c","1","-","b","i","b","-","0","0","0","7","\"",">","C","<","/","b","i","b","l","i","o","m","i","x","e","d",">">> }

BibliographyTags == { <<"<","b","i","b","l","i","o","g","r","a","p","h","y"," ","i","d","=","\"","c","h","0","0","2","0","\"",">">>, <<"<","b","i","b","l","i","o","g","r","a","p","h","y",">">> }

ReferenceDocuments ==
  { leading \o tag \o entries \o <<"<","/","b","i","b","l","i","o","g","r","a","p","h","y",">">> \o trailing :
      leading \in { <<>>,
                   <<"<","b","i","b","l","i","o","g","r","a","p","h","y",">","<","b","i","b","l","i","o","m","i","x","e","d",">","P","<","/","b","i","b","l","i","o","m","i","x","e","d",">","<","/","b","i","b","l","i","o","g","r","a","p","h","y",">">>,
                   <<"<","b","i","b","l","i","o","m","i","x","e","d",">","S","<","/","b","i","b","l","i","o","m","i","x","e","d",">">> },
      tag \in BibliographyTags,
      entries \in Documents(BibliographyEntries, MaxEntries),
      trailing \in { <<>>, <<"<","b","i","b","l","i","o","e","n","t","r","y"," ","i","d","=","\"","x","\"",">","T","<","/","b","i","b","l","i","o","e","n","t","r","y",">">> } }

InitReferences ==
  /\ toc = <<>>
  /\ prev = NoDocument
  /\ op = "read"
  /\ out = [raised |-> FALSE, changes |-> <<>>]
  /\ fixer = LinkFixer(<<>>)
  /\ fs = NoFiles
  /\ heap = NoObjects
  /\ doc \in { [content |-> d, filename |-> f] :
                 d \in ReferenceDocuments, f \in { <<>>, <<"c","h","0","0","1","1",".","x","m","l">> } }
  /\ ids = NoIds
  /\ book = NoBook

\* content, ref_changes = reference_fixer.fix_references_in_content(content, filename)
FixReferences ==
  LET r == fix_references_in_content(doc.content, doc.filename)
  IN  /\ doc' = [doc EXCEPT !.content = r.content]
      /\ prev' = doc
      /\ op' = "fix_references_in_content"
      /\ out' = [raised |-> FALSE, changes |-> r.changes]
      /\ UNCHANGED <<toc, fixer, fs, heap, ids, book>>

NextReferences == FixReferences

SpecReferences == InitReferences /\ [][NextReferences]_vars

-----------------------------------------------------------------------------
(* Matching: the ids of the citations of a document and the ids of its     *)
(* bibliography entries, up to MaxIds of each, mapped any number of times. *)

MaxIds == 3

CitationRefs == {
  <<"c","h","0","0","1","1","-","c","1","-","b","i","b","-","0","0","0","7">>, <<"c","h","0","0","1","1","-","b","i","b","0","0","0","7">>, <<"C","H","0","0","1","1","-","x","-","0","7">>,
  <<"c","h","0","0","1","2","-","c","-","b","i","b","-","0","0","0","7">>, <<"b","i","b","3">>, <<"x">> }

BibIds == {
  <<"c","h","0","0","1","1","-","b","i","b","0","0","0","7">>, <<"c","h","0","0","1","1","-","r","e","f","-","0","0","7">>, <<"C","h","0","0","1","1","_","7">>, <<"b","i","b","0","0","0","3">>,
  <<"c","h","0","0","1","1","-","c","1","-","b","i","b","-","0","0","0","7">> }

UpToOf(n, set) == { some \in SUBSET set : Cardinality(some) <= n }

InitMatching ==
  /\ toc = <<>>
  /\ prev = NoIds
  /\ op = "collect"
  /\ out = [raised |-> FALSE, mapping |-> <<>>]
  /\ fixer = LinkFixer(<<>>)
  /\ fs = NoFiles
  /\ heap = NoObjects
  /\ doc = NoDocument
  /\ ids \in { [citation_refs |-> refs, bib_ids |-> bibs] :
                 refs \in UpToOf(MaxIds, CitationRefs), bibs \in UpToOf(MaxIds, BibIds) }
  /\ book = NoBook

\* mapping = self.ref_fixer.create_id_mapping(citation_refs, bib_ids)
CreateIdMapping ==
  \E mapping \in create_id_mapping(ids.citation_refs, ids.bib_ids) :
    /\ out' = [raised |-> FALSE, mapping |-> mapping]
    /\ prev' = ids
    /\ op' = "create_id_mapping"
    /\ UNCHANGED <<toc, fixer, fs, heap, doc, ids, book>>

NextMatching == CreateIdMapping

SpecMatching == InitMatching /\ [][NextMatching]_vars

-----------------------------------------------------------------------------
(* A batch run: BookFixer._process_directory over the files of a walk, one  *)
(* file a step.  The walk is the list os.walk yields; a file that cannot be *)
(* opened, a TOC that does not parse and a file that cannot be written are  *)
(* the ways the processing of one file raises.                              *)

MaxFiles == 2

BookFile(name, readable, writable, parses, content) ==
  [name |-> name, readable |-> readable, writable |-> writable,
   parses |-> parses, fixed |-> FALSE, content |-> content]

CitedText == <<"a"," ","<","c","i","t","a","t","i","o","n",">","c","h","0","0","1","1","-","c","1","-","b","i","b","-","0","0","0","7","<","/","c","i","t","a","t","i","o","n",">">>
EntryText == <<"<","b","i","b","l","i","o","e","n","t","r","y"," ","i","d","=","\"","r","e","f","5","\"",">","B","<","/","b","i","b","l","i","o","e","n","t","r","y",">">>

BookFiles ==
  { BookFile(<<"t","o","c",".","n","c","x">>, TRUE, TRUE, TRUE, <<"<","n","c","x","/",">">>),
    BookFile(<<"t","o","c",".","n","c","x">>, FALSE, TRUE, TRUE, <<"<","n","c","x","/",">">>),
    BookFile(<<"n","a","v",".","x","h","t","m","l">>, TRUE, TRUE, FALSE, <<"<","n","a","v",">">>),
    BookFile(<<"t","o","c",".","x","m","l">>, TRUE, FALSE, TRUE, <<"<","t","o","c","/",">">>),
    BookFile(<<"c","h","0","0","1","1",".","x","m","l">>, TRUE, TRUE, TRUE, CitedText),
    BookFile(<<"c","h","0","0","1","1",".","x","m","l">>, TRUE, FALSE, TRUE, CitedText),
    BookFile(<<"n","o","t","e","s",".","x","m","l">>, FALSE, TRUE, TRUE, CitedText),
    BookFile(<<"n","o","t","e","s",".","x","m","l">>, TRUE, FALSE, TRUE, <<"p","l","a","i","n">>),
    BookFile(<<"r","e","f","s",".","x","m","l">>, TRUE, TRUE, TRUE, EntryText),
    BookFile(<<"c","o","v","e","r",".","j","p","g">>, FALSE, FALSE, TRUE, <<>>),
    BookFile(<<".","D","S","_","S","t","o","r","e">>, FALSE, FALSE, TRUE, <<>>) }

Walks == UNION { [1..n -> BookFiles] : n \in 0..MaxFiles }

InitBook ==
  /\ toc = <<>>
  /\ prev = NoDocument
  /\ op = "walk"
  /\ out = [raised |-> FALSE]
  /\ fixer = LinkFixer(<<>>)
  /\ fs = NoFiles
  /\ heap = NoObjects
  /\ doc = NoDocument
  /\ ids = NoIds
  /\ book \in { [NoBook EXCEPT !.files = files, !.status = "walking"] : files \in Walks }

\* One turn of "for filename in files" of _process_directory; an exception
\* that leaves the loop body ends the run.
ProcessNext(done) ==
  /\ book' = [done.book EXCEPT !.next = IF done.raised THEN @ ELSE @ + 1,
                               !.status = IF done.raised THEN "raised" ELSE @]
  /\ out' = [raised |-> done.raised]
  /\ op' = "process_file"
  /\ UNCHANGED <<toc, prev, fixer, fs, heap, doc, ids>>

ProcessFile ==
  /\ book.status = "walking"
  /\ book.next <= Len(book.files)
  /\ \E done \in {process_file(book, book.next)} : ProcessNext(done)

\* os.walk is exhausted: _process_directory returns, and process_directory
\* returns the report.
WalkEnds ==
  /\ book.status = "walking"
  /\ book.next > Len(book.files)
  /\ book' = [book EXCEPT !.status = "returned"]
  /\ out' = [raised |-> FALSE]
  /\ op' = "process_directory"
  /\ UNCHANGED <<toc, prev, fixer, fs, heap, doc, ids>>

NextBook == ProcessFile \/ WalkEnds

SpecBook == InitBook /\ [][NextBook]_vars

\* The interpreter goes on with the loop as long as it can: weak fairness
\* of both steps.  That of ProcessFile is written out, with the guard of
\* the step for ENABLED <<ProcessFile>>_vars: every step of it moves on in
\* the walk or ends the run, so it is possible exactly when its guard holds.
ProcessFileGoesOn ==
  \/ []<>(~(book.status = "walking" /\ book.next <= Len(book.files)))
  \/ []<><<ProcessFile>>_vars

SpecBookFair == SpecBook /\ WF_vars(WalkEnds) /\ ProcessFileGoesOn

-----------------------------------------------------------------------------
(* Rebuilding: _rebuild_hierarchy on (item, detected level) pairs, any      *)
(* levels for the items of a flat list, and the pairs fix_nesting makes of  *)
(* the flat list of the test (tests/test_toc_fixer.py,                      *)
(* test_fix_flat_structure).                                                *)

MaxPairs == 4

\* The levels _detect_levels gives from a title: 0 to 3.
DetectedLevels == 0..3

FlatStructure ==
  << <<"C","h","a","p","t","e","r"," ","1">>, <<"1",".","1"," ","S","e","c","t","i","o","n"," ","O","n","e">>, <<"1",".","2"," ","S","e","c","t","i","o","n"," ","T","w","o">>, <<"C","h","a","p","t","e","r"," ","2">> >>

FlatItems(titles) ==
  [i \in DOMAIN titles |->
     [id |-> i, title |-> titles[i], href |-> <<"c",".","x">>, level |-> 0, children |-> <<>>]]

PairsOf(items, levels) ==
  [i \in DOMAIN items |-> [item |-> items[i], level |-> levels[i]]]

InitRebuild ==
  /\ toc = <<>>
  /\ prev \in { detect_levels(flatten_items(FlatItems(FlatStructure), 0)) }
                \cup UNION { { PairsOf(FlatItems([i \in 1..n |-> <<"I","t","e","m">>]), levels) :
                                 levels \in [1..n -> DetectedLevels] } : n \in 0..MaxPairs }
  /\ op = "detect_levels"
  /\ out = <<>>
  /\ fixer = LinkFixer(<<>>)
  /\ fs = NoFiles
  /\ heap = NoObjects
  /\ doc = NoDocument
  /\ ids = NoIds
  /\ book = NoBook

\* return self._rebuild_hierarchy(items_with_levels), prev the pairs
RebuildHierarchy ==
  /\ toc' = rebuild_hierarchy(prev)
  /\ op' = "rebuild_hierarchy"
  /\ UNCHANGED <<prev, out, fixer, fs, heap, doc, ids, book>>

NextRebuild == RebuildHierarchy

SpecRebuild == InitRebuild /\ [][NextRebuild]_vars

-----------------------------------------------------------------------------
(* Deep trees: a parsed TOC nested up to five levels, plain titles and a    *)
(* title with a long number, repaired any number of times.                  *)

MaxDeepItems == 5

DeepTitles == { <<"F","o","o">>, <<"1",".","2",".","3",".","4",".","5"," ","x">> }

InitDeep ==
  /\ toc \in ParsedTrees(Titled(DeepTitles), MaxDeepItems)
  /\ prev = <<>>
  /\ op = "parse"
  /\ out = <<>>
  /\ fixer = LinkFixer(<<>>)
  /\ fs = NoFiles
  /\ heap = NoObjects
  /\ doc = NoDocument
  /\ ids = NoIds
  /\ book = NoBook

SpecDeep == InitDeep /\ [][NextNesting]_vars

-----------------------------------------------------------------------------
(* Fragments: _fix_fragment on any text over a few characters.              *)

MaxFragmentLen == 3

FragmentAlphabet == {"a", "Z", "_", "1", "-", ".", ":", " ", "#"}

InitFragment ==
  /\ toc = <<>>
  /\ prev \in Texts(FragmentAlphabet, MaxFragmentLen)
  /\ op = "urlparse"
  /\ out = <<>>
  /\ fixer = LinkFixer(<<>>)
  /\ fs = NoFiles
  /\ heap = NoObjects
  /\ doc = NoDocument
  /\ ids = NoIds
  /\ book = NoBook

\* fixed_fragment = self._fix_fragment(parsed.fragment)
FixFragment ==
  /\ out' = fix_fragment(prev)
  /\ op' = "fix_fragment"
  /\ UNCHANGED <<toc, prev, fixer, fs, heap, doc, ids, book>>

NextFragment == FixFragment

SpecFragment == InitFragment /\ [][NextFragment]_vars

-----------------------------------------------------------------------------
(* Paths: a TOC of one item whose target names a file of the content root,  *)
(* in another case, with another extension, in a directory, or nothing,     *)
(* fixed and analysed any number of times by one LinkFixer.  The root holds *)
(* up to MaxRootEntries of a few files and a directory, listed by           *)
(* os.listdir in one order or the other.                                    *)

MaxRootEntries == 3

RootEntries == << <<"A",".","X">>, <<"a",".","x">>, <<"A",".","h","t","m","l">>, <<"a",".","H","T","M">>, <<"a",".","x","m","l">>, <<"D">> >>

\* The content root with the entries at the indexes picked, in the order
\* of the indexes or against it; D is a directory that holds the file a.x.
Listed(picked, forward) ==
  LET up == SelectSeq([i \in DOMAIN RootEntries |-> i], LAMBDA i : i \in picked)
  IN  [i \in DOMAIN up |->
         RootEntries[IF forward THEN up[i] ELSE up[Len(up) + 1 - i]]]

RootWith(entries) ==
  LET node(name) ==
        IF name = <<"D">> THEN Directory(<< <<"a",".","x">> >>) ELSE File(<<"<","p","/",">">>, TRUE)
  IN  [p \in { <<>>, << <<"r">> >> }
             \cup { << <<"r">>, entries[i] >> : i \in DOMAIN entries }
             \cup (IF \E i \in DOMAIN entries : entries[i] = <<"D">>
                   THEN { << <<"r">>, <<"D">>, <<"a",".","x">> >> } ELSE {}) |->
         IF p = <<>> THEN Directory(<< <<"r">> >>)
         ELSE IF p = << <<"r">> >> THEN Directory(entries)
         ELSE IF Len(p) = 3 THEN File(<<"<","p","/",">">>, TRUE)
         ELSE node(p[2])]

ContentRoots ==
  { RootWith(Listed(picked, forward)) :
      picked \in { s \in SUBSET DOMAIN RootEntries : Cardinality(s) <= MaxRootEntries },
      forward \in BOOLEAN }

PathHrefs ==
  { <<"a",".","x">>,
    <<"A",".","x">>,
    <<"A",".","h","t","m">>,
    <<"a",".","h","t","m">>,
    <<"b",".","h","t","m">>,
    <<"d","/","A",".","X">>,
    <<"d">>,
    <<".","/","a",".","h","t","m">>,
    <<"a"," ","b",".","x">> }

InitPaths ==
  /\ toc \in ParsedTrees(Linked(PathHrefs), 1) \ { <<>> }
  /\ prev = <<>>
  /\ op = "parse"
  /\ out = [raised |-> FALSE, issues |-> <<>>]
  /\ fixer = LinkFixer(CONTENT_ROOT)
  /\ fs \in ContentRoots
  /\ heap = NoObjects
  /\ doc = NoDocument
  /\ ids = NoIds
  /\ book = NoBook

SpecPaths == InitPaths /\ [][NextLinks]_vars

-----------------------------------------------------------------------------
(* Lookups: one LinkFixer with a content root answers file and fragment    *)
(* lookups while the file a.x of the root is created, deleted, made        *)
(* unreadable and made readable again.  out holds the key and the answer   *)
(* of the last lookup and, for every key looked up so far, the answer the  *)
(* first lookup of it got.                                                 *)

\* The content root with the file a.x, which nobody may read.
UnreadableContent ==
  [ContentFiles EXCEPT ![<< <<"r">>, <<"a",".","x">> >>].readable = FALSE]

LookupFragments == { <<"f">>, <<"g">> }

NoLookups == [key |-> <<>>, value |-> FALSE, answered |-> <<>>]

InitLookups ==
  /\ toc = <<>>
  /\ prev = <<>>
  /\ op = "init"
  /\ out = NoLookups
  /\ fixer = LinkFixer(CONTENT_ROOT)
  /\ fs \in { ContentFiles, UnreadableContent, EmptyContent }
  /\ heap = NoObjects
  /\ doc = NoDocument
  /\ ids = NoIds
  /\ book = NoBook

\* A lookup of key answered with r: the instance as the call leaves it,
\* and the answer noted.
Answered(called, key, r) ==
  /\ fixer' = r.fixer
  /\ out' = [key |-> key, value |-> r.value,
             answered |-> IF key \in DOMAIN out.answered THEN out.answered
                          ELSE out.answered @@ (key :> r.value)]
  /\ op' = called
  /\ UNCHANGED <<toc, prev, fs, heap, doc, ids, book>>

\* self._file_exists(full_path)
FileExists ==
  \E path \in { path_join(CONTENT_ROOT, <<"a",".","x">>), path_join(CONTENT_ROOT, <<"b",".","x">>) } :
    Answered("file_exists", <<path>>, file_exists(fixer, fs, path))

\* self._fragment_exists(file_path, fragment)
FragmentExists ==
  \E fragment \in LookupFragments :
    Answered("fragment_exists", <<path_join(CONTENT_ROOT, <<"a",".","x">>), fragment>>,
             fragment_exists(fixer, fs, <<"a",".","x">>, fragment))

\* The file a.x is created, deleted, made unreadable or made readable.
FileChanges ==
  /\ fs' \in { ContentFiles, UnreadableContent, EmptyContent } \ {fs}
  /\ op' = "file changes"
  /\ UNCHANGED <<toc, prev, out, fixer, heap, doc, ids, book>>

NextLookups == FileExists \/ FragmentExists \/ FileChanges

SpecLookups == InitLookups /\ [][NextLookups]_vars

-----------------------------------------------------------------------------
(* Anchors: a chapter of up to MaxAnchorBlocks of a citation, sections     *)
(* with ids titled Intro and References, and a bibliography with an id,    *)
(* its citations fixed any number of times.                                *)

MaxAnchorBlocks == 3

AnchorCitation == <<"<","c","i","t","a","t","i","o","n",">","c","h","0","0","1","1","-","c","1","-","b","i","b","-","0","0","0","7","<","/","c","i","t","a","t","i","o","n",">">>
IntroSection == <<"<","s","e","c","t","1"," ","i","d","=","\"","i","n","t","r","o","\"",">","<","t","i","t","l","e",">","I","n","t","r","o","<","/","t","i","t","l","e",">","<","/","s","e","c","t","1",">">>
ReferencesSect == <<"<","s","e","c","t","1"," ","i","d","=","\"","r","e","f","s","\"",">","<","t","i","t","l","e",">","R","e","f","e","r","e","n","c","e","s","<","/","t","i","t","l","e",">","<","/","s","e","c","t","1",">">>
ReferencesSection == <<"<","s","e","c","t","i","o","n"," ","i","d","=","\"","s","e","c","\"",">","<","t","i","t","l","e",">","r","e","f","e","r","e","n","c","e","s","<","/","t","i","t","l","e",">","<","/","s","e","c","t","i","o","n",">">>
BibliographyContainer == <<"<","b","i","b","l","i","o","g","r","a","p","h","y"," ","i","d","=","\"","b","i","b","\"",">","<","/","b","i","b","l","i","o","g","r","a","p","h","y",">">>

AnchorBlocks ==
  { AnchorCitation, IntroSection, ReferencesSect, ReferencesSection,
    BibliographyContainer }

InitAnchors ==
  /\ toc = <<>>
  /\ prev = NoDocument
  /\ op = "read"
  /\ out = [raised |-> FALSE, changes |-> <<>>]
  /\ fixer = LinkFixer(<<>>)
  /\ fs = NoFiles
  /\ heap = NoObjects
  /\ doc \in { [content |-> d, filename |-> <<"c","h","0","0","1","1",".","x","m","l">>] :
                 d \in Documents(AnchorBlocks, MaxAnchorBlocks) }
  /\ ids = NoIds
  /\ book = NoBook

SpecAnchors == InitAnchors /\ [][NextCitations]_vars

-----------------------------------------------------------------------------
(* Unique: a content document of one or two bibliographies whose entries,  *)
(* up to MaxUniqueEntries in the second, have no id or ids that differ in  *)
(* a middle component or in their prefix, fixed any number of times.       *)

MaxUniqueEntries == 2

UniqueEntries == {
  <<"<","b","i","b","l","i","o","m","i","x","e","d",">","A","<","/","b","i","b","l","i","o","m","i","x","e","d",">">>,
  <<"<","b","i","b","l","i","o","m","i","x","e","d"," ","i","d","=","\"","c","h","0","0","1","1","-","c","1","-","b","i","b","-","0","0","0","1","\"",">","B","<","/","b","i","b","l","i","o","m","i","x","e","d",">">>,
  <<"<","b","i","b","l","i","o","m","i","x","e","d"," ","i","d","=","\"","c","h","0","0","1","1","-","c","2","-","b","i","b","-","0","0","0","1","\"",">","C","<","/","b","i","b","l","i","o","m","i","x","e","d",">">>,
  <<"<","b","i","b","l","i","o","e","n","t","r","y"," ","i","d","=","\"","r","e","f","2","\"",">","D","<","/","b","i","b","l","i","o","e","n","t","r","y",">">> }

UniqueDocuments ==
  { leading \o tag \o entries \o <<"<","/","b","i","b","l","i","o","g","r","a","p","h","y",">">> :
      leading \in { <<>>,
                   <<"<","b","i","b","l","i","o","g","r","a","p","h","y",">","<","b","i","b","l","i","o","m","i","x","e","d"," ","i","d","=","\"","c","h","0","0","1","1","-","c","3","-","b","i","b","-","0","0","0","2","\"",">","P","<","/","b","i","b","l","i","o","m","i","x","e","d",">","<","/","b","i","b","l","i","o","g","r","a","p","h","y",">">> },
      tag \in BibliographyTags,
      entries \in Documents(UniqueEntries, MaxUniqueEntries) }

InitUnique ==
  /\ toc = <<>>
  /\ prev = NoDocument
  /\ op = "read"
  /\ out = [raised |-> FALSE, changes |-> <<>>]
  /\ fixer = LinkFixer(<<>>)
  /\ fs = NoFiles
  /\ heap = NoObjects
  /\ doc \in { [content |-> d, filename |-> f] :
                 d \in UniqueDocuments, f \in { <<>>, <<"c","h","0","0","1","1",".","x","m","l">> } }
  /\ ids = NoIds
  /\ book = NoBook

SpecUnique == InitUnique /\ [][NextReferences]_vars

-----------------------------------------------------------------------------
(* Structure: a content document of up to MaxStructureBlocks of a          *)
(* paragraph, sections titled Intro and Steps, the second with an ordered  *)
(* list, and sections titled References with and without an ordered list,  *)
(* its bibliography structure fixed any number of times.                   *)

MaxStructureBlocks == 3

ReferencesOpen == <<"<","s","e","c","t","1"," ","i","d","=","\"","r","e","f","s","\"",">","<","t","i","t","l","e",">","R","e","f","e","r","e","n","c","e","s","<","/","t","i","t","l","e",">">>
SectionClose == <<"<","/","s","e","c","t","1",">">>

StructureBlocks == {
  <<"<","p","a","r","a",">","a","f","t","e","r","<","/","p","a","r","a",">">>,
  <<"<","s","e","c","t","1"," ","i","d","=","\"","i","n","t","r","o","\"",">","<","t","i","t","l","e",">","I","n","t","r","o","<","/","t","i","t","l","e",">","<","p","a","r","a",">","T","e","x","t","<","/","p","a","r","a",">">> \o SectionClose,
  <<"<","s","e","c","t","1"," ","i","d","=","\"","s","t","e","p","s","\"",">","<","t","i","t","l","e",">","S","t","e","p","s","<","/","t","i","t","l","e",">","<","o","r","d","e","r","e","d","l","i","s","t",">","<","l","i","s","t","i","t","e","m",">","<","p","a","r","a",">","s","t","e","p","<","/","p","a","r","a",">","<","/","l","i","s","t","i","t","e","m",">","<","/","o","r","d","e","r","e","d","l","i","s","t",">">> \o SectionClose,
  ReferencesOpen \o <<"<","p","a","r","a",">","n","o","n","e","<","/","p","a","r","a",">">> \o SectionClose,
  ReferencesOpen \o <<"<","o","r","d","e","r","e","d","l","i","s","t",">","<","l","i","s","t","i","t","e","m"," ","i","d","=","\"","a","\"",">","<","p","a","r","a",">","1"," ","X","<","/","p","a","r","a",">","<","/","l","i","s","t","i","t","e","m",">","<","/","o","r","d","e","r","e","d","l","i","s","t",">">> \o SectionClose }

InitStructure ==
  /\ toc = <<>>
  /\ prev = NoDocument
  /\ op = "read"
  /\ out = [raised |-> FALSE, changes |-> <<>>]
  /\ fixer = LinkFixer(<<>>)
  /\ fs = NoFiles
  /\ heap = NoObjects
  /\ doc \in { [content |-> d, filename |-> f] :
                 d \in Documents(StructureBlocks, MaxStructureBlocks),
                 f \in { <<>>, <<"c","h","0","0","1","1",".","x","m","l">> } }
  /\ ids = NoIds
  /\ book = NoBook

\* fixed, changes = fixer.fix_bibliography_structure(content, filename)
FixBibliography ==
  LET r == fix_bibliography_structure(doc.content, doc.filename)
  IN  /\ doc' = [doc EXCEPT !.content = r.content]
      /\ prev' = doc
      /\ op' = "fix_bibliography_structure"
      /\ out' = [raised |-> FALSE, changes |-> r.changes]
      /\ UNCHANGED <<toc, fixer, fs, heap, ids, book>>

NextStructure == FixBibliography

SpecStructure == InitStructure /\ [][NextStructure]_vars

-----------------------------------------------------------------------------
(* Properties.                                                              *)

\* Every item of a tree, in document order (depth first, left to right).
RECURSIVE Nodes(_)
Nodes(items) ==
  IF items = <<>> THEN <<>>
  ELSE <<Head(items)>> \o Nodes(Head(items).children) \o Nodes(Tail(items))

PreOrder(items) ==
  LET n == Nodes(items)
  IN  [i \in DOMAIN n |-> <<n[i].id, n[i].title, n[i].href>>]

ChildLevelsFollowParent(items) ==
  \A i \in DOMAIN Nodes(items) :
    LET p == Nodes(items)[i]
    IN  \A j \in DOMAIN p.children : p.children[j].level = p.level + 1

\* The titles C4 is about: a vocabulary term, or a term followed by a space.
HasTopLevelTerm(title) ==
  \E i \in DOMAIN TOP_LEVEL_ITEMS :
    \/ lower(title) = TOP_LEVEL_ITEMS[i]
    \/ /\ Len(title) > Len(TOP_LEVEL_ITEMS[i])
       /\ SubSeq(lower(title), 1, Len(TOP_LEVEL_ITEMS[i])) = TOP_LEVEL_ITEMS[i]
       /\ title[Len(TOP_LEVEL_ITEMS[i]) + 1] = " "

\* C1: hierarchy reconstruction is idempotent: repairing a tree that
\* fix_nesting returned gives that tree again, with the same nesting, order
\* and level values.
C1_FixNestingIdempotent ==
  op = "fix_nesting" => fix_nesting(toc) = toc

\* C2: in every tree fix_nesting returns, the level of each child is the
\* level of its parent plus one.
C2_ChildLevelIsParentLevelPlusOne ==
  op = "fix_nesting" => ChildLevelsFollowParent(toc)

\* C3: the items of the tree fix_nesting returns, read depth first and left
\* to right as (id, title, target), are those of the tree it was given, in
\* the same order: none dropped, duplicated or moved.
C3_DocumentOrderPreserved ==
  op = "fix_nesting" => PreOrder(toc) = PreOrder(prev)

\* C3: a tree of three items whose nesting the repair changed.
C3_Witness ==
  /\ op = "fix_nesting"
  /\ Len(Nodes(prev)) >= 3
  /\ Len(toc) # Len(prev)

\* C4: an item whose title is a top-level vocabulary term, or starts with
\* one followed by a space, has level 0 in the repaired tree, whatever its
\* level was and whatever else its title looks like.
C4_TopLevelVocabularyWins ==
  op = "fix_nesting" =>
    \A i \in DOMAIN Nodes(toc) :
      HasTopLevelTerm(Nodes(toc)[i].title) => Nodes(toc)[i].level = 0

\* C4: "Appendix 1" (a term followed by a space) that was nested below
\* another item and is a root of the repaired tree.
C4_Witness ==
  /\ op = "fix_nesting"
  /\ \E i \in DOMAIN Nodes(prev) :
       /\ Nodes(prev)[i].level >= 1
       /\ Nodes(prev)[i].title = <<"A","p","p","e","n","d","i","x"," ","1">>
       /\ \E j \in DOMAIN toc : toc[j].id = Nodes(prev)[i].id /\ toc[j].level = 0

\* C5: renumbering is idempotent: renumbering a tree that
\* fix_numbering_sequence returned gives that tree again.
C5_RenumberingIdempotent ==
  op = "fix_numbering_sequence" => fix_numbering_sequence(toc) = toc

\* C5: a numbered item below a numbered item, both given new numbers, the
\* child's with the parent's number as prefix.
C5_Witness ==
  /\ op = "fix_numbering_sequence"
  /\ \E i \in DOMAIN toc :
       /\ toc[i].title # prev[i].title
       /\ toc[i].children # <<>>
       /\ toc[i].children[1].title # prev[i].children[1].title
       /\ SubSeq(toc[i].children[1].title, 1, 3) = <<"1", ".", "1">>

\* No sibling list of the tree holds two items with one (title, href) pair.
NoDuplicateSiblings(items) ==
  LET distinct(list) == \A i, j \in DOMAIN list :
                          merge_key(list[i]) = merge_key(list[j]) => i = j
  IN  /\ distinct(items)
      /\ \A n \in DOMAIN Nodes(items) : distinct(Nodes(items)[n].children)

\* C6: duplicate merging is idempotent: merging a tree that
\* merge_duplicate_entries returned gives that tree again, that is, after
\* one pass no sibling list at any depth holds two items with the same
\* (title, target) pair.
C6_MergeIdempotent ==
  op = "merge_duplicate_entries" =>
    /\ merge_duplicate_entries(toc) = toc
    /\ NoDuplicateSiblings(toc)

\* The indexes of the items of a sibling list that are the first with their
\* (title, href) pair, in order.
FirstOccurrences(list) ==
  SelectSeq([i \in DOMAIN list |-> i],
            LAMBDA i : \A j \in 1..(i - 1) : merge_key(list[j]) # merge_key(list[i]))

\* The children of the items after index i that have the pair of item i,
\* one list after the other.
RECURSIVE ChildrenOfLater(_, _, _)
ChildrenOfLater(list, i, j) ==
  IF j > Len(list) THEN <<>>
  ELSE (IF merge_key(list[j]) = merge_key(list[i]) THEN list[j].children ELSE <<>>)
       \o ChildrenOfLater(list, i, j + 1)

RECURSIVE MergedAsStated(_)
MergedAsStated(list) ==
  LET first == FirstOccurrences(list)
  IN  [k \in DOMAIN first |->
         [list[first[k]] EXCEPT !.children =
            MergedAsStated(list[first[k]].children)
            \o ChildrenOfLater(list, first[k], first[k] + 1)]]

HasExternalScheme(href) ==
  \E s \in EXTERNAL_SCHEMES : startswith(lower(href), s \o <<":">>)

\* C8: external targets are never touched: for every item whose target has
\* the scheme http, https, mailto or ftp, fix_links returns the target
\* unchanged and analyze_issues reports no issue for it, with or without a
\* content root.
C8_ExternalTargetsUntouched ==
  \A i \in DOMAIN Nodes(prev) :
    HasExternalScheme(Nodes(prev)[i].href) =>
      /\ op = "fix_links" =>
           ~out.raised /\ Nodes(toc)[i].href = Nodes(prev)[i].href
      /\ op = "LinkFixer.analyze_issues" =>
           /\ ~out.raised
           /\ \A k \in DOMAIN out.issues : out.issues[k].href # Nodes(prev)[i].href

\* The escape of a character: a percent sign and the two hexadecimal digits
\* of its code.
PercentEscape(c) ==
  <<"%", HexUpper[(Ord(c) \div 16) + 1], HexUpper[(Ord(c) % 16) + 1]>>

\* The path C9 states: every space %20, every other character outside the
\* alphanumerics and -_./%# escaped, every allowed character as it is.
StatedEncoding(path) ==
  Concat([i \in DOMAIN path |->
            IF path[i] = " " THEN <<"%", "2", "0">>
            ELSE IF isalnum(path[i]) \/ path[i] \in {"-", "_", ".", "/", "%", "#"}
            THEN <<path[i]>>
            ELSE PercentEscape(path[i])])

\* C9: with no content root, fix_links rewrites every internal target so
\* that in its path every space becomes %20, every character outside the
\* alphanumerics and -_./%# is percent-escaped and every allowed character
\* is kept as it is, and a fragment that is valid is left unchanged.
C9_InternalPathEncoded ==
  (op = "fix_links" /\ fixer.content_base_path = <<>> /\ ~out.raised) =>
    \A i \in DOMAIN Nodes(prev) :
      LET href   == Nodes(prev)[i].href
          parsed == urlparse(href)
          stated == StatedEncoding(parsed.path)
      IN  (href # <<>> /\ parsed.scheme \notin EXTERNAL_SCHEMES) =>
            /\ startswith(Nodes(toc)[i].href, stated)
            /\ is_valid_fragment(parsed.fragment) =>
                 Nodes(toc)[i].href =
                   stated \o (IF parsed.fragment # <<>>
                              THEN <<"#">> \o parsed.fragment ELSE <<>>)

\* C10: analysis never mutates: after NestingFixer.analyze_issues and after
\* LinkFixer.analyze_issues the tree the caller holds, read through its
\* references, has in every item the id, title, target, level and children
\* it had before the call, for every tree and any number of calls.
C10_AnalysisNeverMutates ==
  op \in {"NestingFixer.analyze_issues", "LinkFixer.analyze_issues"} => toc = prev

\* C10: the NestingFixer analysed a tree with nested items, whose copies it
\* flattened, and reported an item at a wrong level.
C10_Witness ==
  /\ op = "NestingFixer.analyze_issues"
  /\ \E i \in DOMAIN toc : toc[i].children # <<>>
  /\ \E k \in DOMAIN out.issues : out.issues[k].type = "incorrect_level"

\* The link a citation tag is replaced by, read apart: its target is the
\* text between url=" and the next quotation mark, its label the text
\* between the > after it and </ulink>.
LinkTarget(replacement) ==
  SubStr(replacement, 13, Find(replacement, "\"", 13) - 1)

LinkLabel(replacement) ==
  SubStr(replacement, Find(replacement, "\"", 13) + 2, Len(replacement) - 8)

IsLink(replacement) ==
  /\ startswith(replacement, <<"<","u","l","i","n","k"," ","u","r","l","=","\"">>)
  /\ Find(replacement, "\"", 13) > 0
  /\ replacement[Find(replacement, "\"", 13) + 1] = ">"
  /\ Drop(replacement, Len(replacement) - 8) = <<"<","/","u","l","i","n","k",">">>

\* A numeral without its leading zeros; the last digit stays.
WithoutLeadingZeros(digits) ==
  LET keep == { i \in DOMAIN digits : digits[i] # "0" \/ i = Len(digits) }
  IN  Drop(digits, (CHOOSE i \in keep : \A j \in keep : i <= j) - 1)

IsChapterCode(text) ==
  /\ Len(text) >= 3
  /\ lower(SubStr(text, 1, 2)) = <<"c","h">>
  /\ \A i \in 3..Len(text) : text[i] \in Digit

IsNumber(text) == text # <<>> /\ \A i \in DOMAIN text : text[i] \in Digit

\* The id has the form {chapter}-...-bib-{number}: the chapter is its first
\* i characters, the number what follows its character j.
HasCitationForm(id, i, j) ==
  /\ IsChapterCode(SubStr(id, 1, i))
  /\ i + 1 <= j - 4
  /\ id[i + 1] = "-"
  /\ lower(SubStr(id, j - 4, j)) = <<"-","b","i","b","-">>
  /\ IsNumber(Drop(id, j))

\* C11: citation label correctness: for every marker whose id has the form
\* {chapter}-...-bib-{number}, chapter being ch and digits, the link emitted
\* shows the number without its leading zeros and its target begins with
\* the chapter in lower case and a #.
C11_CitationLabelAndChapter ==
  op = "fix_citations_in_content" =>
    \A k \in DOMAIN out.changes :
      \A i, j \in 1..Len(out.changes[k].citation_id) :
        HasCitationForm(out.changes[k].citation_id, i, j) =>
          /\ IsLink(out.changes[k].replacement)
          /\ LinkLabel(out.changes[k].replacement)
               = WithoutLeadingZeros(Drop(out.changes[k].citation_id, j))
          /\ startswith(LinkTarget(out.changes[k].replacement),
                        lower(SubStr(out.changes[k].citation_id, 1, i)) \o <<"#">>)
          /\ out.changes[k].chapter = lower(SubStr(out.changes[k].citation_id, 1, i))

\* C11: a marker CH12-x-bib-010, its chapter in capitals and its number
\* with a leading zero, was replaced by a link.
C11_Witness ==
  /\ op = "fix_citations_in_content"
  /\ \E k \in DOMAIN out.changes :
       /\ out.changes[k].citation_id = <<"C","H","1","2","-","x","-","b","i","b","-","0","1","0">>
       /\ HasCitationForm(out.changes[k].citation_id, 4, 11)
       /\ LinkLabel(out.changes[k].replacement) = <<"1","0">>

\* C12: all markers of one document resolve to the same anchor: any two
\* links emitted by one call of fix_citations_in_content have the same
\* target, whatever the ids of the markers and whether or not a References
\* section was found.
C12_OneTargetPerDocument ==
  op = "fix_citations_in_content" =>
    \A k, l \in DOMAIN out.changes :
      LinkTarget(out.changes[k].replacement) = LinkTarget(out.changes[l].replacement)

\* C13: without a detectable References section every marker resolves to
\* {c}#{c}s009000-5, c the chapter code derived from the file name.
C13_DefaultReferencesTarget ==
  (/\ op = "fix_citations_in_content"
   /\ find_references_section_id(prev.content, <<>>) = <<>>
   /\ extract_chapter_from_filename(prev.filename) # <<>>) =>
    \A k \in DOMAIN out.changes :
      LinkTarget(out.changes[k].replacement)
        = extract_chapter_from_filename(prev.filename) \o <<"#">>
            \o extract_chapter_from_filename(prev.filename) \o <<"s","0","0","9","0","0","0","-","5">>

\* The citation markers of a text: the spans a..b of the tags <citation>
\* and </citation>, in any case, around a text that is not empty and holds
\* no <.  No two of them overlap.
Markers(text) ==
  LET opened == { a \in 1..(Len(text) - 9) :
                    lower(SubStr(text, a, a + 9)) = <<"<","c","i","t","a","t","i","o","n",">">> }
      closed == { b \in 1..Len(text) :
                    /\ b >= 11
                    /\ lower(SubStr(text, b - 10, b))
                         = <<"<","/","c","i","t","a","t","i","o","n",">">> }
  IN  { span \in opened \X closed :
          /\ span[2] - span[1] >= 21
          /\ \A i \in (span[1] + 10)..(span[2] - 11) : text[i] # "<" }

\* The markers in document order.
RECURSIVE InOrder(_)
InOrder(spans) ==
  IF spans = {} THEN <<>>
  ELSE LET first == CHOOSE a \in spans : \A b \in spans : a[1] <= b[1]
       IN  <<first>> \o InOrder(spans \ {first})

\* The text with the marker spans[i] replaced by replacements[i] and all
\* the rest as it is; from is the end of the marker before.
RECURSIVE Replaced(_, _, _, _, _)
Replaced(text, spans, replacements, i, from) ==
  IF i > Len(spans) THEN Drop(text, from)
  ELSE SubStr(text, from + 1, spans[i][1] - 1) \o replacements[i]
       \o Replaced(text, spans, replacements, i + 1, spans[i][2])

\* C14: fix_citations_in_content replaces every citation marker by exactly
\* one link and changes nothing else: the text returned holds no marker,
\* the changes are one record for every marker in document order, the text
\* outside the markers is the text of the input, and a document without
\* markers is returned as it is with no change recorded.
C14_OnlyMarkersReplaced ==
  op = "fix_citations_in_content" =>
    LET spans == InOrder(Markers(prev.content))
    IN  /\ Markers(doc.content) = {}
        /\ Len(out.changes) = Len(spans)
        /\ \A k \in DOMAIN spans :
             /\ out.changes[k].original = SubStr(prev.content, spans[k][1], spans[k][2])
             /\ IsLink(out.changes[k].replacement)
        /\ doc.content = Replaced(prev.content, spans,
                                  [k \in DOMAIN spans |-> out.changes[k].replacement],
                                  1, 0)
        /\ spans = <<>> => doc.content = prev.content /\ out.changes = <<>>

\* C14: a document of two markers with text between them had both
\* replaced.
C14_Witness ==
  /\ op = "fix_citations_in_content"
  /\ Len(out.changes) = 2
  /\ Len(InOrder(Markers(prev.content))) = 2
  /\ InOrder(Markers(prev.content))[2][1] > InOrder(Markers(prev.content))[1][2] + 1
  /\ doc.content # prev.content

\* The positions of a text where the tag <name opens, in any case, and
\* those of the entries of a bibliography, in document order.
TagStarts(text, name) ==
  { a \in 1..(Len(text) - Len(name)) :
      lower(SubStr(text, a, a + Len(name))) = <<"<">> \o name }

EntryStarts(text) ==
  InOrder({ <<a, a>> : a \in TagStarts(text, <<"b","i","b","l","i","o","m","i","x","e","d">>)
                              \cup TagStarts(text, <<"b","i","b","l","i","o","e","n","t","r","y">>) })

\* The opening tag at a position: the text up to the next >.
TagAt(text, a) == SubStr(text, a, Find(text, ">", a))

\* The value of the attribute id="..." of a tag, empty when it has none.
IdIn(tag) ==
  LET at == { i \in 1..(Len(tag) - 3) : SubStr(tag, i, i + 3) = <<"i","d","=","\"">> }
  IN  IF at = {} THEN <<>>
      ELSE SubStr(tag, SetMax(at) + 4, Find(tag, "\"", SetMax(at) + 4) - 1)

\* The bibliography an entry at position a lies in: the position of the
\* last <bibliography before it that no </bibliography closes before it,
\* 0 when there is none.
ContainerOf(text, a) ==
  LET open == { b \in TagStarts(text, <<"b","i","b","l","i","o","g","r","a","p","h","y">>) :
                  /\ b < a
                  /\ \A c \in TagStarts(text, <<"/","b","i","b","l","i","o","g","r","a","p","h","y">>) : ~(b < c /\ c < a) }
  IN  IF open = {} THEN 0 ELSE SetMax(open)

\* The digits a text ends with.
TrailingDigits(text) ==
  LET from == { i \in 0..Len(text) : \A j \in (i + 1)..Len(text) : text[j] \in Digit }
  IN  Drop(text, CHOOSE i \in from : \A j \in from : i <= j)

\* The chapter code a text begins with, in lower case; empty when it
\* begins with none.
LeadingChapterCode(text) ==
  LET ends == { i \in 3..Len(text) : IsChapterCode(SubStr(text, 1, i)) }
  IN  IF ends = {} THEN <<>> ELSE lower(SubStr(text, 1, SetMax(ends)))

\* The chapter code of the entries of the bibliography at position b of a
\* document: the one its id implies, else the one of the file name.
ChapterCodeOf(text, b, filename) ==
  IF LeadingChapterCode(IdIn(TagAt(text, b))) # <<>>
  THEN LeadingChapterCode(IdIn(TagAt(text, b)))
  ELSE ReferenceFixer_extract_chapter_from_filename(filename)

\* "{chapterCode}-bib{sequence:04d}", "bib{sequence:04d}" without a chapter
CanonicalId(chapterCode, sequence) ==
  (IF chapterCode # <<>> THEN chapterCode \o <<"-">> ELSE <<>>)
    \o <<"b","i","b">> \o [i \in 1..(4 - Len(IntToStr(sequence))) |-> "0"]
    \o IntToStr(sequence)

\* An id is the chapter code, a hyphen (neither without a chapter code),
\* bib and four digits or more.
IsCanonicalId(id, chapterCode) ==
  LET head == (IF chapterCode # <<>> THEN chapterCode \o <<"-">> ELSE <<>>)
                \o <<"b","i","b">>
  IN  /\ startswith(id, head)
      /\ Len(id) >= Len(head) + 4
      /\ IsNumber(Drop(id, Len(head)))

\* The number a numeral stands for.
RECURSIVE NumberOf(_)
NumberOf(digits) ==
  IF digits = <<>> THEN 0
  ELSE 10 * NumberOf(SubStr(digits, 1, Len(digits) - 1))
       + IndexIn(<<"0","1","2","3","4","5","6","7","8","9">>, digits[Len(digits)]) - 1

\* How many of the entries of a document up to entry k lie in a
\* bibliography.
EntriesInContainers(text, starts, k) ==
  Cardinality({ j \in 1..k : ContainerOf(text, starts[j][1]) # 0 })

\* C15: after fix_references_in_content every entry inside a bibliography
\* has the id {chapterCode}-bib{sequence:04d}, the chapter code being the
\* one the id of the bibliography implies, else the one of the file name,
\* else none, and the sequence the number its previous id ended with when
\* it had one.
C15_EntryIdsCanonical ==
  op = "fix_references_in_content" =>
    LET were == EntryStarts(prev.content)
        are   == EntryStarts(doc.content)
    IN  /\ Len(are) = Len(were)
        /\ \A k \in DOMAIN were :
             ContainerOf(prev.content, were[k][1]) # 0 =>
               /\ IsCanonicalId(IdIn(TagAt(doc.content, are[k][1])),
                                 ChapterCodeOf(prev.content,
                                               ContainerOf(prev.content, were[k][1]),
                                               prev.filename))
               /\ TrailingDigits(IdIn(TagAt(prev.content, were[k][1]))) # <<>> =>
                    IdIn(TagAt(doc.content, are[k][1]))
                      = CanonicalId(ChapterCodeOf(prev.content,
                                                  ContainerOf(prev.content, were[k][1]),
                                                  prev.filename),
                                    NumberOf(TrailingDigits(
                                      IdIn(TagAt(prev.content, were[k][1])))))

\* C16: an entry of a bibliography that has no id is given the id
\* {chapterCode}-bib{k:04d}, bib{k:04d} without a chapter code, k being the
\* count of the bibliography entries of the document up to it.
C16_MissingIdsCountedPerDocument ==
  op = "fix_references_in_content" =>
    LET were == EntryStarts(prev.content)
        are   == EntryStarts(doc.content)
    IN  /\ Len(are) = Len(were)
        /\ \A k \in DOMAIN were :
             (/\ ContainerOf(prev.content, were[k][1]) # 0
              /\ IdIn(TagAt(prev.content, were[k][1])) = <<>>) =>
               IdIn(TagAt(doc.content, are[k][1]))
                 = CanonicalId(ChapterCodeOf(prev.content,
                                             ContainerOf(prev.content, were[k][1]),
                                             prev.filename),
                               EntriesInContainers(prev.content, were, k))

\* The citation id and the bibliography id end with the same number,
\* leading zeros apart, and begin with the same chapter code.
SameNumberAndChapter(ref, bib_id) ==
  /\ TrailingDigits(ref) # <<>>
  /\ TrailingDigits(bib_id) # <<>>
  /\ WithoutLeadingZeros(TrailingDigits(bib_id)) = WithoutLeadingZeros(TrailingDigits(ref))
  /\ LeadingChapterCode(ref) # <<>>
  /\ LeadingChapterCode(bib_id) = LeadingChapterCode(ref)

\* The id a citation id normalizes to: its chapter code, if it begins with
\* one, and the number it ends with, 0 if it ends with none.
Normalized(ref) == CanonicalId(LeadingChapterCode(ref), NumberOf(TrailingDigits(ref)))

\* C17: create_id_mapping never fails and returns a mapping whose keys are
\* among the citation ids given and whose values are among the bibliography
\* ids given: a citation id that normalizes to, or equals, one of the
\* bibliography ids maps to it, any other maps to a bibliography id with
\* the same trailing number and the same chapter code, and one for which
\* there is none has no entry.
C17_MappingSound ==
  op = "create_id_mapping" =>
    /\ ~out.raised
    /\ DOMAIN out.mapping \subseteq ids.citation_refs
    /\ \A ref \in DOMAIN out.mapping : out.mapping[ref] \in ids.bib_ids
    /\ \A ref \in ids.citation_refs :
         IF Normalized(ref) \in ids.bib_ids
         THEN ref \in DOMAIN out.mapping /\ out.mapping[ref] = Normalized(ref)
         ELSE IF ref \in ids.bib_ids
         THEN ref \in DOMAIN out.mapping /\ out.mapping[ref] = ref
         ELSE IF \E bib_id \in ids.bib_ids : SameNumberAndChapter(ref, bib_id)
         THEN ref \in DOMAIN out.mapping /\ SameNumberAndChapter(ref, out.mapping[ref])
         ELSE ref \notin DOMAIN out.mapping

\* C17: one call mapped a citation id to a bibliography id it neither
\* equals nor normalizes to, and left another citation id, which has the
\* number of a bibliography id but not its chapter, without an entry.
C17_Witness ==
  /\ op = "create_id_mapping"
  /\ <<"c","h","0","0","1","1","-","c","1","-","b","i","b","-","0","0","0","7">> \in DOMAIN out.mapping
  /\ out.mapping[<<"c","h","0","0","1","1","-","c","1","-","b","i","b","-","0","0","0","7">>] = <<"C","h","0","0","1","1","_","7">>
  /\ <<"c","h","0","0","1","2","-","c","-","b","i","b","-","0","0","0","7">> \in ids.citation_refs
  /\ <<"c","h","0","0","1","2","-","c","-","b","i","b","-","0","0","0","7">> \notin DOMAIN out.mapping


-----------------------------------------------------------------------------
\* File i of the walk is one the loop hands to a handler, and the handler
\* for it.
IsHandled(b, i) ==
  /\ ~should_skip(b.files[i].name)
  /\ \/ is_toc_file(b.files[i].name)
     \/ is_content_file(b.files[i].name)
     \/ Len(b.files[i].name) >= 4
        /\ SubStr(b.files[i].name, Len(b.files[i].name) - 3, Len(b.files[i].name)) = <<".","x","m","l">>
IsToc(b, i) == IsHandled(b, i) /\ is_toc_file(b.files[i].name)

\* The processing of file i raises: it cannot be read, it is a TOC that
\* does not parse or cannot be written, or it is a content file with
\* something to fix that cannot be written.
Fails(b, i) ==
  /\ IsHandled(b, i)
  /\ \/ ~b.files[i].readable
     \/ IsToc(b, i) /\ (~b.files[i].parses \/ ~b.files[i].writable)
     \/ ~IsToc(b, i) /\ ~b.files[i].writable
        /\ (Markers(b.files[i].content) # {} \/ EntryStarts(b.files[i].content) # <<>>)

\* The errors of the report that name file i of the walk.
ErrorsNaming(b, i) ==
  { k \in DOMAIN b.report.errors : contains(b.report.errors[k], rel_path(b, i)) }

\* File i was processed to its end: a TOC is fixed and reported, a content
\* file holds no citation marker any more.
Processed(b, i) ==
  IF IsToc(b, i)
  THEN b.files[i].fixed /\ \E k \in DOMAIN b.report.toc_files :
                              b.report.toc_files[k].file = rel_path(b, i)
  ELSE Markers(b.files[i].content) = {}

\* C18: a batch run never aborts on one file's failure: no exception leaves
\* _process_directory, the run always reaches its end, and at the end the
\* report holds exactly one error for every file whose processing raised,
\* naming that file, while every other handled file of the walk, those
\* after a failing one included, was processed.
C18_BatchRunNeverAborts ==
  /\ [](book.status # "raised")
  /\ [](book.status = "returned" =>
          /\ book.next = Len(book.files) + 1
          /\ Len(book.report.errors)
               = Cardinality({ i \in DOMAIN book.files : Fails(book, i) })
          /\ \A i \in DOMAIN book.files :
               /\ Fails(book, i) => Cardinality(ErrorsNaming(book, i)) = 1
               /\ IsHandled(book, i) /\ ~Fails(book, i) => Processed(book, i))
  /\ <>(book.status = "returned")

\* C18 witness: a run that returned although its first file raised, with
\* the error naming that file in the report and the second file, a content
\* file with a citation, fixed and reported.
C18_Witness ==
  /\ book.status = "returned"
  /\ Len(book.files) = 2
  /\ Fails(book, 1)
  /\ Len(book.report.errors) = 1
  /\ contains(book.report.errors[1], rel_path(book, 1))
  /\ book.report.content_files = <<[file |-> rel_path(book, 2), citations_fixed |-> 1]>>
  /\ Markers(book.files[2].content) = {}

-----------------------------------------------------------------------------
\* The pairs <<id of an item, id of its parent>> of a tree, 0 the parent of
\* a root.
RECURSIVE ParentPairs(_, _)
ParentPairs(items, parent) ==
  UNION { { <<items[i].id, parent>> } \cup ParentPairs(items[i].children, items[i].id)
          : i \in DOMAIN items }

\* The nearest item before position i of the pairs whose level is strictly
\* smaller, 0 when there is none.
NearestSmaller(pairs, i) ==
  LET smaller == { j \in 1..(i - 1) : pairs[j].level < pairs[i].level }
  IN  IF smaller = {} THEN 0 ELSE pairs[SetMax(smaller)].item.id

\* C19: in the tree _rebuild_hierarchy builds from (item, level) pairs the
\* parent of every item is the nearest preceding item with a strictly
\* smaller level, and an item is a root exactly when no preceding item has
\* a strictly smaller level; the flat list Chapter 1, 1.1 Section One,
\* 1.2 Section Two, Chapter 2 handed to fix_nesting becomes two roots, the
\* first with two children and the second with none.
C19_ParentIsNearestSmaller ==
  op = "rebuild_hierarchy" =>
    /\ ParentPairs(toc, 0)
         = { <<prev[i].item.id, NearestSmaller(prev, i)>> : i \in DOMAIN prev }
    /\ { toc[r].id : r \in DOMAIN toc }
         = { prev[i].item.id : i \in { k \in DOMAIN prev :
                                        \A j \in 1..(k - 1) : prev[j].level >= prev[k].level } }
    /\ ([i \in DOMAIN prev |-> prev[i].item.title] = FlatStructure
          => /\ Len(toc) = 2
             /\ Len(toc[1].children) = 2
             /\ toc[2].children = <<>>)

\* C19 witness: the pairs fix_nesting makes of the flat list of the test,
\* levels 0, 1, 1, 0, rebuilt to two roots.
C19_Witness ==
  /\ op = "rebuild_hierarchy"
  /\ [i \in DOMAIN prev |-> prev[i].item.title] = FlatStructure
  /\ [i \in DOMAIN prev |-> prev[i].level] = <<0, 1, 1, 0>>
  /\ Len(toc) = 2
  /\ Len(toc[1].children) = 2

-----------------------------------------------------------------------------
\* A title that matches no vocabulary term, no chapter, section or
\* subsection pattern and has no numeric prefix.
IsFallbackTitle(title) ==
  /\ ~is_top_level(strip(title))
  /\ ~matches_pattern(strip(title), CHAPTER_PATTERNS)
  /\ ~matches_pattern(strip(title), SECTION_PATTERNS)
  /\ ~matches_pattern(strip(title), SUBSECTION_PATTERNS)
  /\ infer_level_from_numbering(strip(title)) = {}

\* C20: the fallback keeps the original level: an item of the input tree
\* whose title matches nothing leaves fix_nesting with the level value it
\* carried in the input tree.
C20_FallbackKeepsLevel ==
  op = "fix_nesting" =>
    \A i \in DOMAIN Nodes(prev) :
      IsFallbackTitle(Nodes(prev)[i].title) =>
        \E j \in DOMAIN Nodes(toc) :
          /\ Nodes(toc)[j].id = Nodes(prev)[i].id
          /\ Nodes(toc)[j].level = Nodes(prev)[i].level

-----------------------------------------------------------------------------
\* The number of levels of a tree: 0 for no items, 1 for roots only.
RECURSIVE Levels(_)
Levels(items) ==
  IF items = <<>> THEN 0
  ELSE SetMax({ 1 + Levels(items[i].children) : i \in DOMAIN items })

\* C21: depth is capped at 3: no item of the tree fix_nesting returns has a
\* level greater than 3 or sits deeper than three levels below a root.
C21_DepthCapped ==
  op = "fix_nesting" =>
    /\ \A i \in DOMAIN Nodes(toc) : Nodes(toc)[i].level <= 3
    /\ Levels(toc) <= 4

-----------------------------------------------------------------------------
\* A text that starts with a letter or an underscore and holds only
\* letters, digits, underscores, '-', '.' and ':'.
FragmentLetters == Upper \cup Lower \cup {"_"}
FragmentForm(text) ==
  /\ text # <<>>
  /\ text[1] \in FragmentLetters
  /\ \A i \in DOMAIN text : text[i] \in FragmentLetters \cup Digit \cup {"-", ".", ":"}

\* The characters of a text that such a form allows, in their order.
RECURSIVE Sanitized(_)
Sanitized(text) ==
  IF text = <<>> THEN <<>>
  ELSE (IF Head(text) \in FragmentLetters \cup Digit \cup {"-", ".", ":"}
        THEN <<Head(text)>> ELSE <<>>) \o Sanitized(Tail(text))

\* C22: the fragment _fix_fragment returns is empty or starts with a letter
\* or underscore and holds only word characters, '-', '.' and ':'; a
\* fragment of this form is returned unchanged, and a sanitized fragment
\* that is not empty and starts with another character gets exactly one
\* underscore prepended.
C22_FragmentForm ==
  op = "fix_fragment" =>
    /\ out = <<>> \/ FragmentForm(out)
    /\ FragmentForm(prev) => out = prev
    /\ Sanitized(prev) # <<>> /\ Sanitized(prev)[1] \notin FragmentLetters
          => out = <<"_">> \o Sanitized(prev)
    /\ Sanitized(prev) = <<>> \/ Sanitized(prev)[1] \in FragmentLetters
          => out = Sanitized(prev)

\* C22 witness: the fragment "1 a" came back as "_1a".
C22_Witness ==
  /\ op = "fix_fragment"
  /\ prev = <<"1", " ", "a">>
  /\ out = <<"_", "1", "a">>

-----------------------------------------------------------------------------
\* The names a relative path is made of, and whether they name a file of
\* the content root.
Names(path) == SelectSeq(split(path, "/"), LAMBDA part : part \notin { <<>>, <<".">> })
FileAt(names) ==
  /\ (<< <<"r">> >> \o names) \in DOMAIN fs
  /\ fs[<< <<"r">> >> \o names].kind = "file"

\* The names matched directory by directory with case ignored, taking in
\* every directory the first entry os.listdir gives that is the name in
\* some case: the sequence holding the entries, empty when a name has none.
RECURSIVE CaseMatch(_, _)
CaseMatch(dir, names) ==
  IF names = <<>> THEN << <<>> >>
  ELSE IF dir \notin DOMAIN fs \/ fs[dir].kind # "dir" THEN <<>>
  ELSE LET hits == { k \in DOMAIN fs[dir].entries :
                       lower(fs[dir].entries[k]) = lower(Head(names)) }
       IN  IF hits = {} THEN <<>>
           ELSE LET entry == fs[dir].entries[SetMin(hits)]
                    rest  == CaseMatch(Append(dir, entry), Tail(names))
                IN  IF rest = <<>> THEN <<>> ELSE << <<entry>> \o rest[1] >>

\* A path with its extension replaced by the first of .xhtml, .html, .htm
\* and .xml that names a file: the sequence holding it, empty for none.
Substitutes(path) ==
  LET names == Names(path)
      last  == names[Len(names)]
      stem  == IF RFind(last, ".") > 1 THEN SubStr(last, 1, RFind(last, ".") - 1) ELSE last
      with(ext) == SubSeq(names, 1, Len(names) - 1) \o <<stem \o ext>>
      order == << <<".","x","h","t","m","l">>, <<".","h","t","m","l">>, <<".","h","t","m">>, <<".","x","m","l">> >>
      hits  == { k \in DOMAIN order : FileAt(with(order[k])) }
  IN  IF hits = {} THEN <<>> ELSE <<join_parts(with(order[SetMin(hits)]))>>

\* The path the strategies give for an encoded path, first hit first.
FirstHit(encoded) ==
  IF FileAt(Names(encoded)) THEN encoded
  ELSE IF CaseMatch(<< <<"r">> >>, Names(encoded)) # <<>>
  THEN join_parts(CaseMatch(<< <<"r">> >>, Names(encoded))[1])
  ELSE IF Substitutes(encoded) # <<>> THEN Substitutes(encoded)[1]
  ELSE encoded

\* C23: with a content root, the path fix returns for an internal target is
\* the encoded path if a file exists at it, else the case-insensitive match
\* made directory by directory, else the path with the first of the
\* extensions .xhtml, .html, .htm, .xml that names a file, else the encoded
\* path unchanged; no error is raised.
C23_FirstStrategyWins ==
  op = "fix_links" =>
    /\ ~out.raised
    /\ toc[1].href = FirstHit(replace(prev[1].href, " ", <<"%","2","0">>))

\* C23 witness: A.htm, which names no file, fixed to a.HTM, the match with
\* case ignored, in a root that also holds A.html.
C23_Witness ==
  /\ op = "fix_links"
  /\ prev[1].href = <<"A",".","h","t","m">>
  /\ toc[1].href = <<"a",".","H","T","M">>
  /\ FileAt(<< <<"A",".","h","t","m","l">> >>)

-----------------------------------------------------------------------------
\* C24: file and fragment lookups are cached per repair session: a lookup
\* of a key that was looked up before returns the answer the first lookup
\* of the key got, whatever happened to the files in between.
C24_LookupsCached ==
  op \in {"file_exists", "fragment_exists"} => out.value = out.answered[out.key]

-----------------------------------------------------------------------------
\* The ids of the sectioning elements of a chapter of SpecAnchors, of those
\* whose own title is References, and whether the chapter holds the
\* bibliography container.
SectionIds(content) ==
  { id \in { <<"i","n","t","r","o">>, <<"r","e","f","s">>, <<"s","e","c">> } :
      contains(content, <<" ","i","d","=","\"">> \o id \o <<"\"",">","<","t","i","t","l","e",">">>) }
TitledReferences(content) == SectionIds(content) \ { <<"i","n","t","r","o">> }
HasBibliography(content) == contains(content, <<"<","b","i","b","l","i","o","g","r","a","p","h","y"," ","i","d","=","\"","b","i","b","\"",">">>)

\* C25: the anchor of the citations is the id of the bibliography container
\* when the document has one, also when a section titled References has an
\* id; the id of a sectioning element only when there is no bibliography
\* container id; the synthesized fallback only when there is neither.
C25_BibliographyIdFirst ==
  op = "fix_citations_in_content" =>
    \A i \in DOMAIN out.changes :
      IF HasBibliography(prev.content) THEN out.changes[i].ref_target = <<"b","i","b">>
      ELSE IF TitledReferences(prev.content) # {}
      THEN out.changes[i].ref_target \in SectionIds(prev.content)
      ELSE out.changes[i].ref_target = <<"c","h","0","0","1","1","s","0","0","9","0","0","0","-","5">>

\* C25 (as the code has it): when a sectioning element with an id is
\* titled References, the anchor of the citations is the id of a sectioning
\* element, also when the document has a bibliography container with an id;
\* the id of the bibliography container is the anchor only when no
\* sectioning element is titled References, and the synthesized fallback
\* only when there is neither.
C25_SectionIdFirst ==
  op = "fix_citations_in_content" =>
    \A i \in DOMAIN out.changes :
      IF TitledReferences(prev.content) # {}
      THEN out.changes[i].ref_target \in SectionIds(prev.content)
      ELSE IF HasBibliography(prev.content)
      THEN out.changes[i].ref_target = <<"b","i","b">>
      ELSE out.changes[i].ref_target = <<"c","h","0","0","1","1","s","0","0","9","0","0","0","-","5">>

\* C25: a citation of a chapter with both a bibliography container and a
\* section titled References has been anchored.
C25_Witness ==
  /\ op = "fix_citations_in_content"
  /\ HasBibliography(prev.content)
  /\ TitledReferences(prev.content) # {}
  /\ out.changes # <<>>
  /\ out.changes[1].ref_target \in TitledReferences(prev.content)

\* C26: the identifier the locator returns is the id of the sectioning
\* element whose own title is References, never the id of an earlier
\* section with another title (documents without a bibliography container).
C26_OwnTitleIsReferences ==
  op = "fix_citations_in_content" /\ ~HasBibliography(prev.content)
    /\ TitledReferences(prev.content) # {} =>
      \A i \in DOMAIN out.changes :
        out.changes[i].ref_target \in TitledReferences(prev.content)

\* The ids the entries of a document had before fix_references_in_content
\* and have after it, entry by entry.
IdBefore(k) == IdIn(TagAt(prev.content, EntryStarts(prev.content)[k][1]))
IdAfter(k) == IdIn(TagAt(doc.content, EntryStarts(doc.content)[k][1]))
RecordsOf(type) == SelectSeq(out.changes, LAMBDA c : c.type = type)

\* C27: the change list of fix_references_in_content has exactly one id_add
\* record for each entry that had no id and received one, and exactly one
\* id_fix record, with the old and the new id, for each entry whose id was
\* rewritten, the entries outside any bibliography included; an entry whose
\* id stays as it is has no record.
C27_EveryIdChangeRecorded ==
  op = "fix_references_in_content" =>
    LET entries == DOMAIN EntryStarts(prev.content)
        added   == { k \in entries : IdBefore(k) = <<>> /\ IdAfter(k) # <<>> }
        fixed   == { k \in entries : IdBefore(k) # <<>> /\ IdAfter(k) # IdBefore(k) }
    IN  /\ Len(EntryStarts(doc.content)) = Len(EntryStarts(prev.content))
        /\ Len(RecordsOf("id_add")) = Cardinality(added)
        /\ Len(RecordsOf("id_fix")) = Cardinality(fixed)
        /\ \A k \in added :
             \E i \in DOMAIN out.changes :
               out.changes[i].type = "id_add" /\ out.changes[i].new_id = IdAfter(k)
        /\ \A k \in fixed :
             \E i \in DOMAIN out.changes :
               /\ out.changes[i].type = "id_fix"
               /\ out.changes[i].original_id = IdBefore(k)
               /\ out.changes[i].new_id = IdAfter(k)

\* C28: when the ids of the entries of a content document are pairwise
\* distinct before fix_references_in_content, the ids of its entries, the
\* rewritten and the newly assigned ones, are pairwise distinct after it.
C28_EntryIdsStayUnique ==
  op = "fix_references_in_content" =>
    LET entries == DOMAIN EntryStarts(prev.content)
    IN  (\A j, k \in entries :
           j # k /\ IdBefore(j) # <<>> => IdBefore(j) # IdBefore(k))
        => /\ Len(EntryStarts(doc.content)) = Len(EntryStarts(prev.content))
           /\ \A j, k \in entries :
                j # k /\ IdAfter(j) # <<>> => IdAfter(j) # IdAfter(k)

\* C29: with no content root, LinkFixer.analyze_issues of a tree that
\* fix_links has just returned reports no broken_link issue: no target of
\* the fixed tree has URL encoding issues or an invalid fragment identifier.
C29_FixThenAnalyzeClean ==
  [][(/\ op = "fix_links" /\ ~out.raised
      /\ fixer.content_base_path = <<>>
      /\ op' = "LinkFixer.analyze_issues")
       => \A k \in DOMAIN out'.issues : out'.issues[k].type # "broken_link"]_vars

\* The positions of a text after which a word stands, and the position at
\* which the section that opens at a position closes.
Occurrences(s, w) ==
  { p \in 0..(Len(s) - Len(w)) : SubStr(s, p + 1, p + Len(w)) = w }
ClosedAt(s, p) ==
  SetMin({ q \in Occurrences(s, SectionClose) : q >= p }) + Len(SectionClose)

\* C30: fix_bibliography_structure rewrites the sections titled References
\* only: the text before the first of them and the text after the last of
\* them are in the output as they were, and a document none of whose
\* References sections holds an ordered list is returned as it was, with an
\* empty change list.
C30_OnlyReferencesRewritten ==
  op = "fix_bibliography_structure" =>
    LET opened == Occurrences(prev.content, ReferencesOpen)
        listed_in(p) == contains(SubStr(prev.content, p + 1, ClosedAt(prev.content, p)),
                                 <<"<","o","r","d","e","r","e","d","l","i","s","t">>)
    IN  /\ (\A p \in opened : ~listed_in(p)) =>
             doc.content = prev.content /\ out.changes = <<>>
        /\ opened # {} =>
             /\ startswith(doc.content, SubStr(prev.content, 1, SetMin(opened)))
             /\ LET rest == Drop(prev.content, ClosedAt(prev.content, SetMax(opened)))
                IN  /\ Len(rest) <= Len(doc.content)
                    /\ Drop(doc.content, Len(doc.content) - Len(rest)) = rest

=============================================================================
